---- MODULE Spec2Model ----
(***************************************************************************)
(* Model of cloud_vms_no_agent.py: one run of main() against the upstream  *)
(* platform (authenticate, resolve aliases, list connectors, fetch and     *)
(* filter host assets, render the CSV and HTML reports).                   *)
(*                                                                         *)
(* Strings are sequences of one-character strings, so that str.upper,      *)
(* str.strip, str.replace and the CSV quoting are computed character by    *)
(* character.  A Python dict is a function whose DOMAIN is the set of keys *)
(* present.  A JSON list is a sequence.                                    *)
(***************************************************************************)
EXTENDS Integers, Sequences, FiniteSets, TLC

VARIABLES
    pc,               \* position of main()
    cloud,            \* args.cloud
    account_map,      \* args.account_map and the file behind it
    auth_resp,        \* response of POST /auth, <<>> before the request
    bearer_token,     \* client.bearer_token: <<>> is None, <<s>> the string s
    account_aliases,  \* client.account_aliases
    aws_resp,         \* response of GET /connectors/v1.0/AWS/list, <<>> if not requested
    v3_resp,          \* response of POST .../search/am/<x>assetdataconnector
    host_resp,        \* response of POST .../search/am/hostasset
    assets,           \* the list main() holds after get_assets_without_agent
    csv_file,         \* <<>> if not written, else <<lines>>
    html_file,        \* <<>> if not written, else <<document>>
    exit_code,        \* <<>> while running, <<n>> once the process has ended
    trace,            \* external operations performed, in order
    stdout,           \* markers printed, in order
    browser           \* the report open in a browser: hidden rows, exported file

vars == <<pc, cloud, account_map, auth_resp, bearer_token, account_aliases, aws_resp, v3_resp,
          host_resp, assets, csv_file, html_file, exit_code, trace, stdout, browser>>

(***************************************************************************)
(* Bounds of the model.                                                    *)
(***************************************************************************)
MaxConns == 1          \* entries in one connector listing (main run)
MaxMainRecords == 1    \* host records in one response (main run)
MaxRecords == 2        \* host records in one response (asset pipeline)
MaxCsvAssets == 2      \* assets handed to the CSV renderer
MaxAliasEntries == 2   \* entries of one alias listing (alias resolver)
MaxBrowserRows == 2    \* rows of the report opened in the browser

(***************************************************************************)
(* Strings.                                                                *)
(***************************************************************************)
EmptyStr == <<>>

LowerLetters ==
    <<"a","b","c","d","e","f","g","h","i","j","k","l","m",
      "n","o","p","q","r","s","t","u","v","w","x","y","z">>

UpperLetters ==
    <<"A","B","C","D","E","F","G","H","I","J","K","L","M",
      "N","O","P","Q","R","S","T","U","V","W","X","Y","Z">>

UpperChar(c) ==
    IF \E i \in 1..Len(LowerLetters) : LowerLetters[i] = c
    THEN UpperLetters[CHOOSE i \in 1..Len(LowerLetters) : LowerLetters[i] = c]
    ELSE c

\* str.upper()
str_upper(s) == [i \in 1..Len(s) |-> UpperChar(s[i])]

IsSpace(c) == c \in {" ", "\n", "\t"}

RECURSIVE lstrip(_)
lstrip(s) == IF s # <<>> /\ IsSpace(Head(s)) THEN lstrip(Tail(s)) ELSE s

RECURSIVE rstrip(_)
rstrip(s) ==
    IF s # <<>> /\ IsSpace(s[Len(s)]) THEN rstrip(SubSeq(s, 1, Len(s) - 1)) ELSE s

\* str.strip()
str_strip(s) == rstrip(lstrip(s))

\* truth value of a str, a list or a dict: non-empty
Truthy(v) == DOMAIN v # {}

\* dict.get(key, default)
Get(d, k, default) == IF k \in DOMAIN d THEN d[k] ELSE default

\* the empty dict: the function with no key
EmptyDict == <<>>

AWS == <<"A","W","S">>
AZURE == <<"A","Z","U","R","E">>
GCP == <<"G","C","P">>
TERMINATED == <<"T","E","R","M","I","N","A","T","E","D">>

\* argparse choices of --cloud
CloudChoices == {AWS, AZURE, GCP}


(***************************************************************************)
(* HTTP responses.  raises: the request or resp.json() raised; json is     *)
(* <<>> when the body is not JSON (resp.json() raises), else <<value>>.    *)
(***************************************************************************)
Response(raises, status_code, text, json) ==
    [raises |-> raises, status_code |-> status_code, text |-> text, json |-> json]

TransportError == Response(TRUE, 0, EmptyStr, <<>>)

\* resp.json() of a response that was received
JsonRaises(resp) == resp.json = <<>>

(***************************************************************************)
(* QualysClient.authenticate                                               *)
(***************************************************************************)
\* a faulty variant of authenticate: any response that arrives is taken as a login
authenticate_any_status(resp) ==
    IF resp.raises
    THEN [ok |-> FALSE, bearer_token |-> <<>>, out |-> <<"auth_error">>]
    ELSE [ok |-> TRUE, bearer_token |-> <<str_strip(resp.text)>>,
          out |-> <<"authenticated">>]

authenticate(resp) ==
    IF resp.raises
    THEN [ok |-> FALSE, bearer_token |-> <<>>, out |-> <<"auth_error">>]
    ELSE IF resp.status_code \in {200, 201}
         THEN [ok |-> TRUE, bearer_token |-> <<str_strip(resp.text)>>,
               out |-> <<"authenticated">>]
         ELSE [ok |-> FALSE, bearer_token |-> <<>>, out |-> <<"auth_failed">>]

\* "if self.bearer_token": neither None nor the empty string
HasToken(token) == token # <<>> /\ Truthy(token[1])

(***************************************************************************)
(* QualysClient.get_connectors                                             *)
(***************************************************************************)
\* the request is only made with a token
ConnectorsRequested(token) == HasToken(token)

get_connectors(resp) ==
    IF resp.raises
    THEN [connectors |-> <<>>, out |-> <<"connectors_error">>]
    ELSE IF resp.status_code = 200
         THEN IF JsonRaises(resp)
              THEN [connectors |-> <<>>, out |-> <<"connectors_error">>]
              ELSE [connectors |-> Get(resp.json[1], "content", <<>>),
                    out |-> <<"connectors_found">>]
         ELSE [connectors |-> <<>>, out |-> <<"connectors_status">>]

(***************************************************************************)
(* QualysClient.fetch_account_aliases                                      *)
(***************************************************************************)
\* d[k] = v
Put(d, k, v) == [x \in (DOMAIN d) \cup {k} |-> IF x = k THEN v ELSE d[x]]

\* conn.get("accountAlias") or conn.get("name") or conn.get("description", "")
AwsConnAlias(conn) ==
    IF Truthy(Get(conn, "accountAlias", EmptyStr)) THEN conn["accountAlias"]
    ELSE IF Truthy(Get(conn, "name", EmptyStr)) THEN conn["name"]
    ELSE Get(conn, "description", EmptyStr)

\* a faulty variant of MergeAwsConnectors: an alias met again is added to the
\* one already held
RECURSIVE MergeAwsConnectors_append(_, _)
MergeAwsConnectors_append(aliases, content) ==
    IF content = <<>> THEN aliases
    ELSE LET conn == Head(content)
             account_id == Get(conn, "awsAccountId", EmptyStr)
             alias == AwsConnAlias(conn)
         IN  MergeAwsConnectors_append(
                 IF Truthy(account_id) /\ Truthy(alias)
                 THEN Put(aliases, account_id, Get(aliases, account_id, EmptyStr) \o alias)
                 ELSE aliases,
                 Tail(content))

\* the loop over data.get("content", []) of the Connector v1.0 listing
RECURSIVE MergeAwsConnectors(_, _)
MergeAwsConnectors(aliases, content) ==
    IF content = <<>> THEN aliases
    ELSE LET conn == Head(content)
             account_id == Get(conn, "awsAccountId", EmptyStr)
             alias == AwsConnAlias(conn)
         IN  MergeAwsConnectors(
                 IF Truthy(account_id) /\ Truthy(alias)
                 THEN Put(aliases, account_id, alias)
                 ELSE aliases,
                 Tail(content))

\* the first source is consulted only with a token and for AWS
AwsListRequested(token, cloud_type) == HasToken(token) /\ str_upper(cloud_type) = AWS

\* a faulty variant of AliasesFromAwsList: a failure empties the map
AliasesFromAwsList_clears(aliases, resp) ==
    IF resp.raises \/ resp.status_code # 200 \/ JsonRaises(resp)
    THEN EmptyDict
    ELSE MergeAwsConnectors(aliases, Get(resp.json[1], "content", <<>>))

\* the try block of the Connector v1.0 listing; every exception is swallowed
AliasesFromAwsList(aliases, resp) ==
    IF resp.raises \/ resp.status_code # 200 \/ JsonRaises(resp)
    THEN aliases
    ELSE MergeAwsConnectors(aliases, Get(resp.json[1], "content", <<>>))

\* api_config
ApiConfig(cloud_type) ==
    CASE str_upper(cloud_type) = AWS ->
           [connector_key |-> "AwsAssetDataConnector",
            id_field |-> <<"awsAccountId">>, alias_field |-> "accountAlias"]
      [] str_upper(cloud_type) = AZURE ->
           [connector_key |-> "AzureAssetDataConnector",
            id_field |-> <<"authRecord", "subscriptionId">>, alias_field |-> "name"]
      [] str_upper(cloud_type) = GCP ->
           [connector_key |-> "GcpAssetDataConnector",
            id_field |-> <<"authRecord", "projectId">>, alias_field |-> "name"]

HasApiConfig(cloud_type) == str_upper(cloud_type) \in {AWS, AZURE, GCP}

\* A JSON value whose type the code tests with isinstance carries its type:
\* the value under "sourceInfo" of a host, and the values along an id_field path.
JDict(d) == [type |-> "dict", value |-> d]
JStr(s) == [type |-> "str", value |-> s]

\* isinstance(v, dict)
IsDict(v) == v.type = "dict"

\* for part in id_parts: account_id = account_id.get(part, "") if isinstance(...) else ""
RECURSIVE PathWalk(_, _)
PathWalk(v, parts) ==
    IF parts = <<>> THEN v
    ELSE PathWalk(IF IsDict(v) THEN Get(v.value, Head(parts), JStr(EmptyStr))
                  ELSE JStr(EmptyStr),
                  Tail(parts))

\* account_id = conn, then the walk along id_parts
PathGet(conn, parts) == PathWalk(JDict(conn), parts).value

\* a faulty variant of MergeDataConnectors: an id already held is set again
RECURSIVE MergeDataConnectors_overwrite(_, _, _)
MergeDataConnectors_overwrite(aliases, connectors, config) ==
    IF connectors = <<>> THEN aliases
    ELSE LET conn == Get(Head(connectors), config.connector_key, EmptyDict)
             account_id == PathGet(conn, config.id_field)
             alias == IF Truthy(Get(conn, config.alias_field, EmptyStr))
                      THEN conn[config.alias_field]
                      ELSE Get(conn, "name", EmptyStr)
         IN  MergeDataConnectors_overwrite(
                 IF Truthy(account_id) /\ Truthy(alias)
                 THEN Put(aliases, account_id, alias)
                 ELSE aliases,
                 Tail(connectors), config)

\* the loop over the connectors of the v3.0 asset-data-connector listing
RECURSIVE MergeDataConnectors(_, _, _)
MergeDataConnectors(aliases, connectors, config) ==
    IF connectors = <<>> THEN aliases
    ELSE LET conn == Get(Head(connectors), config.connector_key, EmptyDict)
             account_id == PathGet(conn, config.id_field)
             alias == IF Truthy(Get(conn, config.alias_field, EmptyStr))
                      THEN conn[config.alias_field]
                      ELSE Get(conn, "name", EmptyStr)
         IN  MergeDataConnectors(
                 IF Truthy(account_id) /\ Truthy(alias)
                    /\ account_id \notin DOMAIN aliases
                 THEN Put(aliases, account_id, alias)
                 ELSE aliases,
                 Tail(connectors), config)

\* the try block of the v3.0 listing
AliasesFromDataConnectors(aliases, cloud_type, resp) ==
    IF resp.raises \/ (resp.status_code = 200 /\ JsonRaises(resp))
    THEN [aliases |-> aliases, out |-> <<"aliases_error">>]
    ELSE IF resp.status_code = 200
         THEN [aliases |->
                 MergeDataConnectors(
                     aliases,
                     Get(Get(resp.json[1], "ServiceResponse", EmptyDict), "data", <<>>),
                     ApiConfig(cloud_type)),
               out |-> <<"aliases_fetched">>]
         ELSE [aliases |-> aliases, out |-> <<"aliases_unavailable">>]

\* fetch_account_aliases: awsr and v3r are <<>> or <<response>>, one for each
\* request the call makes
fetch_account_aliases(aliases, token, cloud_type, awsr, v3r) ==
    LET after_aws == IF AwsListRequested(token, cloud_type)
                     THEN AliasesFromAwsList(aliases, awsr[1])
                     ELSE aliases
    IN  IF HasApiConfig(cloud_type)
        THEN AliasesFromDataConnectors(after_aws, cloud_type, v3r[1])
        ELSE [aliases |-> after_aws, out |-> <<>>]


(***************************************************************************)
(* TRACKING_SOURCES and SOURCE_INFO_MAPPING.  An icon is one character,    *)
(* written here by its name.                                               *)
(***************************************************************************)
EC2_CONNECTOR == <<"E","C","2"," ","C","o","n","n","e","c","t","o","r">>
AZURE_CONNECTOR == <<"A","z","u","r","e"," ","C","o","n","n","e","c","t","o","r">>
GCP_CONNECTOR == <<"G","C","P"," ","C","o","n","n","e","c","t","o","r">>
CLOUD_AGENT == <<"C","l","o","u","d"," ","A","g","e","n","t">>
SCANNER == <<"S","c","a","n","n","e","r">>

TRACKING_SOURCES ==
    << <<<<"Q","A","G","E","N","T">>, CLOUD_AGENT>>,
       <<<<"I","N","S","T","A","N","C","E","_","I","D">>, EC2_CONNECTOR>>,
       <<<<"V","M","_","I","D">>, AZURE_CONNECTOR>>,
       <<<<"I","P">>, SCANNER>>,
       <<<<"D","N","S">>, SCANNER>>,
       <<<<"N","E","T","B","I","O","S">>, SCANNER>>,
       <<<<"E","C","2">>, EC2_CONNECTOR>>,
       <<GCP, GCP_CONNECTOR>>,
       <<AZURE, AZURE_CONNECTOR>> >>

\* TRACKING_SOURCES.get(tracking_method, tracking_method)
TrackingSource(tracking_method) ==
    IF \E i \in 1..Len(TRACKING_SOURCES) : TRACKING_SOURCES[i][1] = tracking_method
    THEN TRACKING_SOURCES[CHOOSE i \in 1..Len(TRACKING_SOURCES) :
                              TRACKING_SOURCES[i][1] = tracking_method][2]
    ELSE tracking_method

\* the keys of SOURCE_INFO_MAPPING, in the order of the literal
SOURCE_INFO_KEYS ==
    <<"Ec2AssetSourceSimple", "AzureAssetSourceSimple", "GcpAssetSourceSimple",
      "AgentAssetSource", "QualysAssetSource", "AssetSource">>

\* SOURCE_INFO_MAPPING[key]: <<>> is None, else <<name, icon>>
SOURCE_INFO_MAPPING(key) ==
    CASE key = "Ec2AssetSourceSimple" -> <<EC2_CONNECTOR, "[plug]">>
      [] key = "AzureAssetSourceSimple" -> <<AZURE_CONNECTOR, "[plug]">>
      [] key = "GcpAssetSourceSimple" -> <<GCP_CONNECTOR, "[plug]">>
      [] key = "AgentAssetSource" -> <<CLOUD_AGENT, "[robot]">>
      [] key = "QualysAssetSource" -> <<SCANNER, "[magnifier]">>
      [] key = "AssetSource" -> <<>>

Digits == <<"0","1","2","3","4","5","6","7","8","9">>

\* str(n) of a non-negative int
RECURSIVE IntToStr(_)
IntToStr(n) ==
    IF n < 10 THEN <<Digits[n + 1]>>
    ELSE IntToStr(n \div 10) \o <<Digits[(n % 10) + 1]>>


(***************************************************************************)
(* QualysClient.get_assets_without_agent                                   *)
(*                                                                         *)
(* An element of the "data" list is a dict; the value under "HostAsset" is *)
(* <<>> for JSON null and <<host>> for a host dict.  The hours and         *)
(* updated_hours arguments only change the request that is sent.           *)
(***************************************************************************)
\* tags[k] = v on a dict that keeps its insertion order: <<key, value>> pairs
TagsPut(tags, k, v) ==
    IF \E i \in 1..Len(tags) : tags[i][1] = k
    THEN [i \in 1..Len(tags) |-> IF tags[i][1] = k THEN <<k, v>> ELSE tags[i]]
    ELSE Append(tags, <<k, v>>)

\* for tag_item in list: if tag_key in tag_item: tags[t.get("key","")] = t.get("value","")
RECURSIVE CollectTags(_, _, _)
CollectTags(tags, list, tag_key) ==
    IF list = <<>> THEN tags
    ELSE LET tag_item == Head(list)
         IN  CollectTags(
                 IF tag_key \in DOMAIN tag_item
                 THEN TagsPut(tags, Get(tag_item[tag_key], "key", EmptyStr),
                                    Get(tag_item[tag_key], "value", EmptyStr))
                 ELSE tags,
                 Tail(list), tag_key)

\* the if/elif chain of the loop over source_list
CloudKeyOf(src) ==
    IF "Ec2AssetSourceSimple" \in DOMAIN src THEN "Ec2AssetSourceSimple"
    ELSE IF "AzureAssetSourceSimple" \in DOMAIN src THEN "AzureAssetSourceSimple"
    ELSE IF "GcpAssetSourceSimple" \in DOMAIN src THEN "GcpAssetSourceSimple"
    ELSE ""

\* the tag list of the selected entry and the key of its elements
CloudTags(key, cloud_info) ==
    CASE key = "Ec2AssetSourceSimple" ->
           CollectTags(<<>>,
               Get(Get(Get(cloud_info, "ec2InstanceTags", EmptyDict), "tags", EmptyDict),
                   "list", <<>>),
               "EC2Tags")
      [] key = "AzureAssetSourceSimple" ->
           CollectTags(<<>>,
               Get(Get(Get(cloud_info, "azureVmTags", EmptyDict), "tags", EmptyDict),
                   "list", <<>>),
               "AzureTags")
      [] key = "GcpAssetSourceSimple" ->
           CollectTags(<<>>,
               Get(Get(cloud_info, "labels", EmptyDict), "list", <<>>),
               "GcpLabels")

\* the loop that finds the cloud-specific source info: it stops at the first
\* entry that holds one of the three cloud keys
RECURSIVE FindCloudInfo(_)
FindCloudInfo(source_list) ==
    IF source_list = <<>> THEN [cloud_info |-> EmptyDict, tags |-> <<>>]
    ELSE LET src == Head(source_list)
             key == CloudKeyOf(src)
         IN  IF key # ""
             THEN [cloud_info |-> src[key], tags |-> CloudTags(key, src[key])]
             ELSE FindCloudInfo(Tail(source_list))

\* a faulty variant of MapFields: the AWS keys are read for every provider
MapFields_aws_keys(cloud_type, cloud_info) ==
    [account_id |-> Get(cloud_info, "accountId", EmptyStr),
     region |-> Get(cloud_info, "region", EmptyStr),
     instance_id |-> Get(cloud_info, "instanceId", EmptyStr),
     instance_type |-> Get(cloud_info, "instanceType", EmptyStr),
     state |-> Get(cloud_info, "instanceState", EmptyStr)]

\* a faulty variant of MapFields: a missing region or type is None, not ""
MapFields_none(cloud_type, cloud_info) ==
    LET none == <<"N","o","n","e">>
    IN  CASE str_upper(cloud_type) = AWS ->
               [account_id |-> Get(cloud_info, "accountId", EmptyStr),
                region |-> Get(cloud_info, "region", none),
                instance_id |-> Get(cloud_info, "instanceId", EmptyStr),
                instance_type |-> Get(cloud_info, "instanceType", none),
                state |-> Get(cloud_info, "instanceState", EmptyStr)]
          [] str_upper(cloud_type) = AZURE ->
               [account_id |-> Get(cloud_info, "subscriptionId", EmptyStr),
                region |-> Get(cloud_info, "location", none),
                instance_id |-> Get(cloud_info, "vmId", EmptyStr),
                instance_type |-> Get(cloud_info, "vmSize", none),
                state |-> Get(cloud_info, "state", EmptyStr)]
          [] OTHER ->
               [account_id |-> Get(cloud_info, "projectId", EmptyStr),
                region |-> Get(cloud_info, "zone", none),
                instance_id |-> Get(cloud_info, "instanceId", EmptyStr),
                instance_type |-> Get(cloud_info, "machineType", none),
                state |-> Get(cloud_info, "state", EmptyStr)]

\* "Map fields based on cloud provider"
MapFields(cloud_type, cloud_info) ==
    CASE str_upper(cloud_type) = AWS ->
           [account_id |-> Get(cloud_info, "accountId", EmptyStr),
            region |-> Get(cloud_info, "region", EmptyStr),
            instance_id |-> Get(cloud_info, "instanceId", EmptyStr),
            instance_type |-> Get(cloud_info, "instanceType", EmptyStr),
            state |-> Get(cloud_info, "instanceState", EmptyStr)]
      [] str_upper(cloud_type) = AZURE ->
           [account_id |-> Get(cloud_info, "subscriptionId", EmptyStr),
            region |-> Get(cloud_info, "location", EmptyStr),
            instance_id |-> Get(cloud_info, "vmId", EmptyStr),
            instance_type |-> Get(cloud_info, "vmSize", EmptyStr),
            state |-> Get(cloud_info, "state", EmptyStr)]
      [] str_upper(cloud_type) = GCP ->
           [account_id |-> Get(cloud_info, "projectId", EmptyStr),
            region |-> Get(cloud_info, "zone", EmptyStr),
            instance_id |-> Get(cloud_info, "instanceId", EmptyStr),
            instance_type |-> Get(cloud_info, "machineType", EmptyStr),
            state |-> Get(cloud_info, "state", EmptyStr)]
      [] OTHER ->
           [account_id |-> EmptyStr, region |-> EmptyStr, instance_id |-> EmptyStr,
            instance_type |-> EmptyStr, state |-> EmptyStr]

\* a faulty variant of HasAgent: the key looked up is not the one the platform sends
HasAgent_wrong_key(host) == Truthy(Get(host, "agent", EmptyDict))

\* if host.get("agentInfo")
HasAgent(host) == Truthy(Get(host, "agentInfo", EmptyDict))

\* a faulty variant of IsTerminated: the comparison forgets .upper()
IsTerminated_exact(state) == state = TERMINATED

\* if state.upper() == "TERMINATED"
IsTerminated(state) == str_upper(state) = TERMINATED

\* the names already in sources_found
SourceNames(sources_found) == {sources_found[i][1] : i \in 1..Len(sources_found)}

\* a faulty variant of SourcesOfEntry: a name already found is added again
RECURSIVE SourcesOfEntry_no_dedup(_, _, _)
SourcesOfEntry_no_dedup(sources_found, src, keys) ==
    IF keys = <<>> THEN sources_found
    ELSE LET key == Head(keys)
             found == IF key \in DOMAIN src /\ SOURCE_INFO_MAPPING(key) # <<>>
                      THEN Append(sources_found, SOURCE_INFO_MAPPING(key))
                      ELSE sources_found
         IN  SourcesOfEntry_no_dedup(found, src, Tail(keys))

\* the inner loop over src.keys(); the keys of one entry are visited in the
\* order of SOURCE_INFO_KEYS
RECURSIVE SourcesOfEntry(_, _, _)
SourcesOfEntry(sources_found, src, keys) ==
    IF keys = <<>> THEN sources_found
    ELSE LET key == Head(keys)
             found == IF key \in DOMAIN src /\ SOURCE_INFO_MAPPING(key) # <<>>
                         /\ SOURCE_INFO_MAPPING(key)[1] \notin SourceNames(sources_found)
                      THEN Append(sources_found, SOURCE_INFO_MAPPING(key))
                      ELSE sources_found
         IN  SourcesOfEntry(found, src, Tail(keys))

\* "Collect all sources from sourceInfo"
RECURSIVE SourcesFound(_, _)
SourcesFound(sources_found, source_list) ==
    IF source_list = <<>> THEN sources_found
    ELSE SourcesFound(SourcesOfEntry(sources_found, Head(source_list), SOURCE_INFO_KEYS),
                      Tail(source_list))

\* ", ".join([f"{icon} {name}" for name, icon in sources_found])
RECURSIVE JoinSources(_)
JoinSources(sources_found) ==
    IF sources_found = <<>> THEN EmptyStr
    ELSE LET one == <<sources_found[1][2], " ">> \o sources_found[1][1]
         IN  IF Len(sources_found) = 1 THEN one
             ELSE one \o <<",", " ">> \o JoinSources(Tail(sources_found))

\* "Format sources with icons", with the fallback to the tracking method
SourceLabel(host, source_list) ==
    IF SourcesFound(<<>>, source_list) # <<>>
    THEN JoinSources(SourcesFound(<<>>, source_list))
    ELSE TrackingSource(Get(host, "trackingMethod", EmptyStr))

\* source_info.get("list", []) if isinstance(source_info, dict) else []
SourceList(host) ==
    IF IsDict(Get(host, "sourceInfo", JDict(EmptyDict)))
    THEN Get(Get(host, "sourceInfo", JDict(EmptyDict)).value, "list", <<>>)
    ELSE <<>>

\* CloudAsset(...) as built at the end of the loop body
BuildAsset(host, cloud_type, aliases) ==
    LET source_list == SourceList(host)
        found == FindCloudInfo(source_list)
        m == MapFields(cloud_type, found.cloud_info)
    IN  [asset_id |-> IF "id" \in DOMAIN host THEN IntToStr(host["id"]) ELSE EmptyStr,
         name |-> Get(host, "name", EmptyStr),
         cloud_provider |-> Get(host, "cloudProvider", cloud_type),
         account_id |-> m.account_id,
         account_alias |-> Get(aliases, m.account_id, EmptyStr),
         region |-> m.region,
         instance_id |-> m.instance_id,
         instance_type |-> m.instance_type,
         private_ip |-> Get(found.cloud_info, "privateIpAddress", EmptyStr),
         public_ip |-> Get(found.cloud_info, "publicIpAddress", EmptyStr),
         state |-> m.state,
         source |-> SourceLabel(host, source_list),
         created |-> Get(host, "created", EmptyStr),
         last_updated |-> Get(host, "modified", EmptyStr),
         tags |-> found.tags]

\* host = item.get("HostAsset", {}); host.get(...) raises when host is None
ItemRaises(item) == Get(item, "HostAsset", <<EmptyDict>>) = <<>>

HostOf(item) == Get(item, "HostAsset", <<EmptyDict>>)[1]

\* the three "continue" tests of the loop body
Skipped(host, cloud_type) ==
    LET m == MapFields(cloud_type, FindCloudInfo(SourceList(host)).cloud_info)
    IN  \/ HasAgent(host)
        \/ IsTerminated(m.state)
        \/ ~Truthy(m.account_id)

\* a faulty variant of ProcessHostAssets: a kept record is appended twice
RECURSIVE ProcessHostAssets_twice(_, _, _, _)
ProcessHostAssets_twice(host_assets, cloud_type, aliases, acc) ==
    IF host_assets = <<>> THEN [assets |-> acc, raised |-> FALSE]
    ELSE IF ItemRaises(Head(host_assets)) THEN [assets |-> acc, raised |-> TRUE]
    ELSE ProcessHostAssets_twice(
             Tail(host_assets), cloud_type, aliases,
             IF Skipped(HostOf(Head(host_assets)), cloud_type) THEN acc
             ELSE acc \o << BuildAsset(HostOf(Head(host_assets)), cloud_type, aliases),
                            BuildAsset(HostOf(Head(host_assets)), cloud_type, aliases) >>)

\* "for item in host_assets": the assets appended so far stay in the list when
\* an exception leaves the loop
RECURSIVE ProcessHostAssets(_, _, _, _)
ProcessHostAssets(host_assets, cloud_type, aliases, acc) ==
    IF host_assets = <<>> THEN [assets |-> acc, raised |-> FALSE]
    ELSE IF ItemRaises(Head(host_assets)) THEN [assets |-> acc, raised |-> TRUE]
    ELSE ProcessHostAssets(
             Tail(host_assets), cloud_type, aliases,
             IF Skipped(HostOf(Head(host_assets)), cloud_type) THEN acc
             ELSE Append(acc, BuildAsset(HostOf(Head(host_assets)), cloud_type, aliases)))

get_assets_without_agent(cloud_type, aliases, resp) ==
    IF resp.raises THEN [assets |-> <<>>, out |-> <<"assets_error">>]
    ELSE IF resp.status_code # 200 THEN [assets |-> <<>>, out |-> <<"hostasset_status">>]
    ELSE IF JsonRaises(resp) THEN [assets |-> <<>>, out |-> <<"assets_error">>]
    ELSE LET r == ProcessHostAssets(
                      Get(Get(resp.json[1], "ServiceResponse", EmptyDict), "data", <<>>),
                      cloud_type, aliases, <<>>)
         IN  [assets |-> r.assets,
              out |-> IF r.raised THEN <<"assets_error">> ELSE <<"assets_found">>]


(***************************************************************************)
(* CloudAsset.to_dict and generate_csv_report                              *)
(***************************************************************************)
DQ == "\""

\* the escapes json.dumps applies inside a string (ASCII input)
JsonEscapeChar(c) ==
    CASE c = DQ -> <<"\\", DQ>>
      [] c = "\\" -> <<"\\", "\\">>
      [] c = "\n" -> <<"\\", "n">>
      [] c = "\t" -> <<"\\", "t">>
      [] OTHER -> <<c>>

RECURSIVE JsonEscape(_)
JsonEscape(s) == IF s = <<>> THEN <<>> ELSE JsonEscapeChar(Head(s)) \o JsonEscape(Tail(s))

JsonString(s) == <<DQ>> \o JsonEscape(s) \o <<DQ>>

RECURSIVE JsonMembers(_)
JsonMembers(tags) ==
    IF tags = <<>> THEN <<>>
    ELSE LET one == JsonString(tags[1][1]) \o <<":", " ">> \o JsonString(tags[1][2])
         IN  IF Len(tags) = 1 THEN one
             ELSE one \o <<",", " ">> \o JsonMembers(Tail(tags))

\* json.dumps(tags) of a dict of strings, with the default separators
json_dumps(tags) == <<"{">> \o JsonMembers(tags) \o <<"}">>

\* CloudAsset.to_dict: the <<header, value>> pairs in the order of the literal
to_dict(self) ==
    << <<<<"A","s","s","e","t"," ","I","D">>, self.asset_id>>,
       <<<<"N","a","m","e">>, self.name>>,
       <<<<"C","l","o","u","d"," ","P","r","o","v","i","d","e","r">>, self.cloud_provider>>,
       <<<<"A","c","c","o","u","n","t"," ","I","D">>, self.account_id>>,
       <<<<"A","c","c","o","u","n","t"," ","A","l","i","a","s">>, self.account_alias>>,
       <<<<"R","e","g","i","o","n">>, self.region>>,
       <<<<"I","n","s","t","a","n","c","e"," ","I","D">>, self.instance_id>>,
       <<<<"I","n","s","t","a","n","c","e"," ","T","y","p","e">>, self.instance_type>>,
       <<<<"P","r","i","v","a","t","e"," ","I","P">>, self.private_ip>>,
       <<<<"P","u","b","l","i","c"," ","I","P">>, self.public_ip>>,
       <<<<"S","t","a","t","e">>, self.state>>,
       <<<<"S","o","u","r","c","e">>, self.source>>,
       <<<<"C","r","e","a","t","e","d">>, self.created>>,
       <<<<"L","a","s","t"," ","U","p","d","a","t","e","d">>, self.last_updated>>,
       <<<<"T","a","g","s">>, IF self.tags # <<>> THEN json_dumps(self.tags) ELSE EmptyStr>> >>

\* seps.join(strs)
RECURSIVE Join(_, _)
Join(strs, sep) ==
    IF strs = <<>> THEN EmptyStr
    ELSE IF Len(strs) = 1 THEN strs[1]
    ELSE strs[1] \o sep \o Join(Tail(strs), sep)

\* s.replace(chr(34), chr(34)+chr(34))
RECURSIVE DoubleQuotes(_)
DoubleQuotes(s) ==
    IF s = <<>> THEN <<>>
    ELSE (IF Head(s) = DQ THEN <<DQ, DQ>> ELSE <<Head(s)>>) \o DoubleQuotes(Tail(s))

\* a faulty variant of CsvValue: the value is wrapped but its quotes are not doubled
CsvValue_no_doubling(v) == <<DQ>> \o v \o <<DQ>>

\* f'"{str(row[h]).replace(chr(34), chr(34)+chr(34))}"'
CsvValue(v) == <<DQ>> \o DoubleQuotes(v) \o <<DQ>>

\* one f.write of a data row
CsvRow(asset) ==
    Join([i \in 1..Len(to_dict(asset)) |-> CsvValue(to_dict(asset)[i][2])], <<",">>)
    \o <<"\n">>

\* the f.write of the header row
CsvHeader(asset) ==
    Join([i \in 1..Len(to_dict(asset)) |-> to_dict(asset)[i][1]], <<",">>) \o <<"\n">>

\* generate_csv_report: file is <<>> when nothing is written, else <<writes>>
generate_csv_report(asset_list) ==
    IF asset_list = <<>>
    THEN [file |-> <<>>, out |-> <<"csv_warning">>]
    ELSE [file |-> << <<CsvHeader(asset_list[1])>>
                      \o [i \in 1..Len(asset_list) |-> CsvRow(asset_list[i])] >>,
          out |-> <<"csv_report">>]

(***************************************************************************)
(* generate_html_report                                                    *)
(***************************************************************************)
\* html.escape(s) with quote=True
HtmlEscapeChar(c) ==
    CASE c = "&" -> <<"&","a","m","p",";">>
      [] c = "<" -> <<"&","l","t",";">>
      [] c = ">" -> <<"&","g","t",";">>
      [] c = DQ -> <<"&","q","u","o","t",";">>
      [] c = "'" -> <<"&","#","x","2","7",";">>
      [] OTHER -> <<c>>

\* a faulty variant of escape: the value is embedded as it is
escape_none(s) == s

RECURSIVE escape(_)
escape(s) == IF s = <<>> THEN <<>> ELSE HtmlEscapeChar(Head(s)) \o escape(Tail(s))

\* the key of the "accounts" grouping
AccountKey(a) ==
    IF Truthy(a.account_alias)
    THEN a.account_id \o <<" ", "(">> \o a.account_alias \o <<")">>
    ELSE a.account_id

\* s[:10]
First10(s) == IF Len(s) > 10 THEN SubSeq(s, 1, 10) ELSE s

StateClass(a) ==
    IF str_upper(a.state) = <<"R","U","N","N","I","N","G">> THEN <<"s","t","a","t","e","-","r","u","n","n","i","n","g">>
    ELSE IF str_upper(a.state) \in {<<"S","T","O","P","P","E","D">>, TERMINATED, <<"D","E","A","L","L","O","C","A","T","E","D">>} THEN <<"s","t","a","t","e","-","s","t","o","p","p","e","d">>
    ELSE EmptyStr

\* the text of one <tr>, from its escaped parts
RowHtml(data_account, data_alias, state_class, cells) ==
    LET TrDataAccount == <<"<", "t", "r", " ", "d", "a", "t", "a", "-", "a", "c", "c", "o", "u", "n", "t", "=", DQ>>
        DataAlias == <<DQ, " ", "d", "a", "t", "a", "-", "a", "l", "i", "a", "s", "=", DQ>>
        FirstTd == <<DQ, ">", "\n", " ", " ", " ", " ", "<", "t", "d", ">">>
        NextTd == <<"<", "/", "t", "d", ">", "\n", " ", " ", " ", " ", "<", "t", "d", ">">>
        StateTd == <<"<", "/", "t", "d", ">", "\n", " ", " ", " ", " ", "<", "t", "d", " ", "c", "l", "a", "s", "s", "=", DQ>>
        AttrEnd == <<DQ, ">">>
        LastTd == <<"<", "/", "t", "d", ">", "\n", "<", "/", "t", "r", ">", "\n">>
    IN  TrDataAccount \o data_account \o DataAlias \o data_alias \o FirstTd
        \o Join(SubSeq(cells, 1, 7), NextTd)
        \o StateTd \o state_class \o AttrEnd \o cells[8] \o NextTd
        \o Join(SubSeq(cells, 9, 11), NextTd) \o LastTd

\* the text of one <option>, from its escaped value and its label
OptionHtml(value, label) ==
    LET OptionValue == <<"<", "o", "p", "t", "i", "o", "n", " ", "v", "a", "l", "u", "e", "=", DQ>>
        AttrEnd == <<DQ, ">">>
        OptionEnd == <<"<", "/", "o", "p", "t", "i", "o", "n", ">">>
    IN  OptionValue \o value \o AttrEnd \o label \o OptionEnd

\* one <tr> of the table body: its escaped parts and its text
HtmlRow(a) ==
    LET cells == <<escape(a.name), escape(a.account_id), escape(a.account_alias),
                   escape(a.region), escape(a.instance_id), escape(a.instance_type),
                   escape(a.private_ip), escape(a.state), escape(a.source),
                   escape(First10(a.created)), escape(First10(a.last_updated))>>
    IN  [data_account |-> escape(a.account_id),
         data_alias |-> escape(a.account_alias),
         state_class |-> StateClass(a),
         cells |-> cells,
         html |-> RowHtml(escape(a.account_id), escape(a.account_alias),
                          StateClass(a), cells)]

\* f'<option value="{escape(k)}">{escape(k)} ({v})</option>'
AccountOption(k, v) ==
    [value |-> escape(k), label |-> escape(k), count |-> v,
     html |-> OptionHtml(escape(k), escape(k) \o <<" ", "(">> \o IntToStr(v) \o <<")">>)]

\* f'<option value="{escape(r)}">{escape(r)}</option>'
RegionOption(r) ==
    [value |-> escape(r), label |-> escape(r),
     html |-> OptionHtml(escape(r), escape(r))]

\* generate_html_report: the document is written whatever the list holds.  The
\* option lists are kept as sets (their order is that of sorted()).
generate_html_report(asset_list) ==
    LET keys == {AccountKey(asset_list[i]) : i \in 1..Len(asset_list)}
        regions == {asset_list[i].region : i \in 1..Len(asset_list)}
    IN  [file |-> << [total |-> Len(asset_list),
                      accounts |-> Cardinality(keys),
                      regions |-> Cardinality(regions),
                      account_options |->
                          {AccountOption(k, Cardinality({i \in 1..Len(asset_list) :
                                                           AccountKey(asset_list[i]) = k}))
                             : k \in keys},
                      region_options |-> {RegionOption(r) : r \in {x \in regions : Truthy(x)}},
                      rows |-> [i \in 1..Len(asset_list) |-> HtmlRow(asset_list[i])]] >>,
         out |-> <<"html_report">>]


(***************************************************************************)
(* The script of the report: filterTable and exportVisible, run by the     *)
(* browser on the table of the document.                                   *)
(***************************************************************************)
\* what a browser shows for escaped text: the five entities read back
RECURSIVE HtmlUnescape(_)
HtmlUnescape(s) ==
    LET StartsWith(p) == Len(s) >= Len(p) /\ SubSeq(s, 1, Len(p)) = p
        Drop(n) == SubSeq(s, n + 1, Len(s))
    IN  IF s = <<>> THEN <<>>
        ELSE IF StartsWith(<<"&","a","m","p",";">>) THEN <<"&">> \o HtmlUnescape(Drop(5))
        ELSE IF StartsWith(<<"&","l","t",";">>) THEN <<"<">> \o HtmlUnescape(Drop(4))
        ELSE IF StartsWith(<<"&","g","t",";">>) THEN <<">">> \o HtmlUnescape(Drop(4))
        ELSE IF StartsWith(<<"&","q","u","o","t",";">>) THEN <<DQ>> \o HtmlUnescape(Drop(6))
        ELSE IF StartsWith(<<"&","#","x","2","7",";">>) THEN <<"'">> \o HtmlUnescape(Drop(6))
        ELSE <<Head(s)>> \o HtmlUnescape(Tail(s))

\* the report is not open, nothing is hidden or exported
NoBrowser == [hidden |-> {}, exported |-> <<>>]

\* c.textContent of a cell, row.dataset.x of an attribute, option.value
TextContent(piece) == HtmlUnescape(piece)

\* the test of filterTable for one row; the search box is left empty
RowMatches(row, account, region) ==
    LET rowAccount == TextContent(row.data_account) \o <<" ", "(">>
                      \o TextContent(row.data_alias) \o <<")">>
        rowRegion == TextContent(row.cells[4])
        matchAccount == account = EmptyStr \/ rowAccount = account
                        \/ TextContent(row.data_account) = account
        matchRegion == region = EmptyStr \/ rowRegion = region
    IN  matchAccount /\ matchRegion

\* filterTable(): the rows that get the class "hidden"
filterTable(doc, account, region) ==
    {i \in 1..Len(doc.rows) : ~RowMatches(doc.rows[i], account, region)}

\* const headers = [...]
ExportHeaders ==
    <<<<"N", "a", "m", "e">>,
      <<"A", "c", "c", "o", "u", "n", "t">>,
      <<"A", "c", "c", "o", "u", "n", "t", " ", "A", "l", "i", "a", "s">>,
      <<"R", "e", "g", "i", "o", "n">>,
      <<"I", "n", "s", "t", "a", "n", "c", "e", " ", "I", "D">>,
      <<"T", "y", "p", "e">>,
      <<"P", "r", "i", "v", "a", "t", "e", " ", "I", "P">>,
      <<"S", "t", "a", "t", "e">>,
      <<"S", "o", "u", "r", "c", "e">>,
      <<"C", "r", "e", "a", "t", "e", "d">>>>

\* Array.from(row.cells).map(c => '"' + c.textContent.replace(/"/g, '""') + '"').join(',') + '\n'
ExportRow(row) ==
    Join([c \in 1..Len(row.cells) |->
             <<DQ>> \o DoubleQuotes(TextContent(row.cells[c])) \o <<DQ>>], <<",">>)
    \o <<"\n">>

\* the rows of the table that are not hidden, in table order
RECURSIVE VisibleRows(_, _, _)
VisibleRows(doc, hidden, i) ==
    IF i > Len(doc.rows) THEN <<>>
    ELSE (IF i \in hidden THEN <<>> ELSE <<doc.rows[i]>>) \o VisibleRows(doc, hidden, i + 1)

\* exportVisible(): the pieces appended to csv, the header line first
exportVisible(doc, hidden) ==
    <<Join(ExportHeaders, <<",">>) \o <<"\n">>>>
    \o [i \in 1..Len(VisibleRows(doc, hidden, 1)) |-> ExportRow(VisibleRows(doc, hidden, 1)[i])]


(***************************************************************************)
(* The inputs of a run: the command line, the override file and the        *)
(* responses of the platform.                                              *)
(***************************************************************************)
Ids == {<<"1">>, <<"2">>}

\* dict built from <<key, opt>> pairs, opt = <<>> (key absent) or <<value>>
DictFrom(pairs) ==
    [k \in {p[1] : p \in {q \in pairs : q[2] # <<>>}} |->
        (CHOOSE p \in pairs : p[1] = k)[2][1]]

\* sequences over S of length 0..n
SeqsUpTo(S, n) == UNION {[1..m -> S] : m \in 0..n}

\* --account-map: not given, not readable, or a JSON object
AccountMaps ==
    {[given |-> FALSE, readable |-> FALSE, content |-> EmptyDict],
     [given |-> TRUE, readable |-> FALSE, content |-> EmptyDict],
     [given |-> TRUE, readable |-> TRUE, content |-> EmptyDict],
     [given |-> TRUE, readable |-> TRUE, content |-> (<<"1">> :> <<"P">>)]}

AuthResponses ==
    {TransportError,
     Response(FALSE, 401, EmptyStr, <<>>),
     Response(FALSE, 200, <<"t", "\n">>, <<>>),
     Response(FALSE, 201, <<" ">>, <<>>)}

\* the ways a JSON endpoint fails
FailedResponses ==
    {TransportError,
     Response(FALSE, 500, EmptyStr, <<>>),
     Response(FALSE, 200, EmptyStr, <<>>)}

JsonResponse(value) == Response(FALSE, 200, EmptyStr, <<value>>)

\* entries of the Connector v1.0 listing
AwsConns ==
    {DictFrom({<<"awsAccountId", <<i>> >>, <<"accountAlias", <<<<"D">>>> >>}) : i \in Ids}
    \cup {DictFrom({<<"awsAccountId", <<<<"1">>>> >>, <<"accountAlias", <<EmptyStr>> >>,
                    <<"name", <<<<"N">>>> >>})}

AwsListResponses ==
    FailedResponses \cup {JsonResponse(EmptyDict)}
    \cup {JsonResponse([content |-> c]) : c \in SeqsUpTo(AwsConns, MaxConns) \ {<<>>}}

\* entries of the v3.0 asset-data-connector listing of one provider
DataConnectorItems(cloud_type) ==
    CASE cloud_type = AWS ->
           {("AwsAssetDataConnector" :> c) : c \in
               {DictFrom({<<"awsAccountId", <<JStr(i)>> >>, <<"accountAlias", <<<<"V">>>> >>})
                  : i \in Ids}
               \cup {DictFrom({<<"awsAccountId", <<JStr(<<"2">>)>> >>, <<"name", <<<<"N">>>> >>})}}
      [] cloud_type = AZURE ->
           {("AzureAssetDataConnector" :> c) : c \in
               {DictFrom({<<"authRecord", <<JDict([subscriptionId |-> JStr(i)])>> >>,
                          <<"name", <<<<"V">>>> >>}) : i \in Ids}
               \cup {DictFrom({<<"authRecord", <<JStr(<<"x">>)>> >>, <<"name", <<<<"N">>>> >>})}}
      [] cloud_type = GCP ->
           {("GcpAssetDataConnector" :> c) : c \in
               {DictFrom({<<"authRecord", <<JDict([projectId |-> JStr(i)])>> >>,
                          <<"name", <<<<"V">>>> >>}) : i \in Ids}
               \cup {DictFrom({<<"authRecord", <<JDict([projectId |-> JStr(<<"2">>)])>> >>})}}

DataConnectorResponses(cloud_type) ==
    FailedResponses \cup {JsonResponse(EmptyDict)}
    \cup {JsonResponse([ServiceResponse |-> [data |-> c]])
            : c \in SeqsUpTo(DataConnectorItems(cloud_type), MaxConns) \ {<<>>}}

ConnectorResponses ==
    {TransportError, Response(FALSE, 403, EmptyStr, <<>>),
     JsonResponse([content |-> <<>>])}

\* the cloud-specific entry of one provider, with the account and state given
\* as <<>> (absent) or <<value>>
CloudEntry(provider, account, state) ==
    CASE provider = AWS ->
           ("Ec2AssetSourceSimple" :>
               DictFrom({<<"accountId", account>>, <<"instanceState", state>>,
                         <<"region", <<<<"r">>>> >>, <<"instanceId", <<<<"i">>>> >>}))
      [] provider = AZURE ->
           ("AzureAssetSourceSimple" :>
               DictFrom({<<"subscriptionId", account>>, <<"state", state>>,
                         <<"location", <<<<"r">>>> >>, <<"vmId", <<<<"i">>>> >>}))
      [] provider = GCP ->
           ("GcpAssetSourceSimple" :>
               DictFrom({<<"projectId", account>>, <<"state", state>>,
                         <<"zone", <<<<"r">>>> >>, <<"instanceId", <<<<"i">>>> >>}))

Running == <<"r","u","n","n","i","n","g">>
Terminated == <<"T","e","r","m","i","n","a","t","e","d">>

GoodEntry(provider) == CloudEntry(provider, <<<<"1">>>>, <<Running>>)

\* entries the filter or the mapping treats differently from GoodEntry
OtherEntries ==
    {CloudEntry(p, <<<<"1">>>>, st) : p \in CloudChoices, st \in {<<Terminated>>, <<>>}}
    \cup {CloudEntry(p, <<>>, <<Running>>) : p \in CloudChoices}

GenericEntry == ("AssetSource" :> EmptyDict)

SourceLists ==
    {<<e>> : e \in OtherEntries}
    \cup {<<GenericEntry, GoodEntry(p)>> : p \in CloudChoices}
    \cup {<<GoodEntry(AWS), GoodEntry(AZURE)>>, <<GoodEntry(AZURE), GoodEntry(GCP)>>,
          <<GoodEntry(GCP), GoodEntry(AWS)>>}

\* agentInfo: absent, an empty object, or the agent's data
AgentInfos == {<<>>, <<EmptyDict>>, <<[agentId |-> <<"g">>]>>}

HostDict(agent, source_info) ==
    DictFrom({<<"agentInfo", agent>>, <<"sourceInfo", source_info>>,
              <<"name", <<<<"h">>>> >>, <<"trackingMethod", <<<<"I","P">>>> >>})

\* the elements of "data": a host dict, "HostAsset": null, or no "HostAsset"
NullItem == [HostAsset |-> <<>>]

HostItems ==
    {[HostAsset |-> <<HostDict(ag, <<JDict([list |-> <<GoodEntry(p)>>])>>)>>]
        : ag \in AgentInfos, p \in CloudChoices}
    \cup {[HostAsset |-> <<HostDict(<<>>, <<JDict([list |-> l])>>)>>] : l \in SourceLists}
    \cup {[HostAsset |-> <<HostDict(<<>>, <<>>)>>],
          [HostAsset |-> <<HostDict(<<>>, <<JStr(<<"x">>)>>)>>],
          NullItem, EmptyDict}

MainHostItems ==
    {[HostAsset |-> <<HostDict(<<>>, <<JDict([list |-> <<GoodEntry(p)>>])>>)>>] : p \in CloudChoices}
    \cup {[HostAsset |-> <<HostDict(<<[agentId |-> <<"g">>]>>,
                                    <<JDict([list |-> <<GoodEntry(AWS)>>])>>)>>],
          NullItem}

\* the platform gives every host asset its own id
WithIds(items) ==
    [i \in 1..Len(items) |->
        IF "HostAsset" \in DOMAIN items[i] /\ items[i]["HostAsset"] # <<>>
        THEN [HostAsset |-> <<Put(items[i]["HostAsset"][1], "id", i)>>]
        ELSE items[i]]

HostResponsesOver(items, n) ==
    FailedResponses \cup {JsonResponse(EmptyDict)}
    \cup {JsonResponse([ServiceResponse |-> [data |-> WithIds(c)]]) : c \in SeqsUpTo(items, n)}

MainHostResponses == HostResponsesOver(MainHostItems, MaxMainRecords)

HostResponses == HostResponsesOver(HostItems, MaxRecords)


(***************************************************************************)
(* main(): one action for each call it makes.                              *)
(***************************************************************************)
Init ==
    /\ browser = NoBrowser
    /\ pc = "authenticate"
    /\ cloud \in CloudChoices
    /\ account_map \in AccountMaps
    /\ auth_resp = <<>>
    /\ bearer_token = <<>>
    /\ account_aliases = EmptyDict
    /\ aws_resp = <<>>
    /\ v3_resp = <<>>
    /\ host_resp = <<>>
    /\ assets = <<>>
    /\ csv_file = <<>>
    /\ html_file = <<>>
    /\ exit_code = <<>>
    /\ trace = <<>>
    /\ stdout = <<>>

\* client.authenticate(), and sys.exit(1) when it returns False
Authenticate ==
    /\ pc = "authenticate"
    /\ \E resp \in AuthResponses :
         LET r == authenticate(resp)
         IN  /\ auth_resp' = <<resp>>
             /\ bearer_token' = r.bearer_token
             /\ trace' = Append(trace, "auth")
             /\ stdout' = stdout \o r.out
                            \o (IF r.ok THEN <<>> ELSE <<"authentication_failed">>)
             /\ pc' = IF r.ok THEN "load_account_map" ELSE "exited"
             /\ exit_code' = IF r.ok THEN exit_code ELSE <<1>>
    /\ UNCHANGED <<browser, cloud, account_map, account_aliases, aws_resp, v3_resp, host_resp,
                   assets, csv_file, html_file>>

\* a faulty variant of load_account_map: the read is not guarded by try/except
load_account_map_unguarded(am, aliases) ==
    IF am.readable
    THEN [raised |-> FALSE, aliases |-> am.content, out |-> <<"aliases_loaded">>]
    ELSE [raised |-> TRUE, aliases |-> aliases, out |-> <<>>]

\* the try block around open(args.account_map) and json.load
load_account_map(am, aliases) ==
    IF am.readable
    THEN [raised |-> FALSE, aliases |-> am.content, out |-> <<"aliases_loaded">>]
    ELSE [raised |-> FALSE, aliases |-> aliases, out |-> <<"account_map_warning">>]

\* "if args.account_map:"; an exception that leaves main ends the process with 1
LoadAccountMap ==
    /\ pc = "load_account_map"
    /\ IF account_map.given
       THEN LET r == load_account_map(account_map, account_aliases)
            IN  /\ account_aliases' = r.aliases
                /\ trace' = Append(trace, "read_account_map")
                /\ stdout' = stdout \o r.out
                /\ pc' = IF r.raised THEN "exited" ELSE "fetch_account_aliases"
                /\ exit_code' = IF r.raised THEN <<1>> ELSE exit_code
       ELSE /\ pc' = "fetch_account_aliases"
            /\ UNCHANGED <<browser, account_aliases, trace, stdout, exit_code>>
    /\ UNCHANGED <<browser, cloud, account_map, auth_resp, bearer_token, aws_resp, v3_resp, host_resp,
                   assets, csv_file, html_file>>

\* client.fetch_account_aliases(args.cloud), the two listings answering with
\* one of the given responses
FetchAliases(aws_responses, v3_responses) ==
    /\ pc = "fetch_account_aliases"
    /\ \E awsr \in (IF AwsListRequested(bearer_token, cloud)
                    THEN {<<r>> : r \in aws_responses} ELSE {<<>>}),
          v3r \in (IF HasApiConfig(cloud)
                   THEN {<<r>> : r \in v3_responses} ELSE {<<>>}) :
         LET r == fetch_account_aliases(account_aliases, bearer_token, cloud, awsr, v3r)
         IN  /\ account_aliases' = r.aliases
             /\ aws_resp' = awsr
             /\ v3_resp' = v3r
             /\ trace' = trace
                           \o (IF awsr # <<>> THEN <<"aws_connector_list">> ELSE <<>>)
                           \o (IF v3r # <<>> THEN <<"data_connector_list">> ELSE <<>>)
             /\ stdout' = stdout \o r.out
    /\ pc' = "get_connectors"
    /\ UNCHANGED <<browser, cloud, account_map, auth_resp, bearer_token, host_resp, assets, csv_file,
                   html_file, exit_code>>

FetchAccountAliases == FetchAliases(AwsListResponses, DataConnectorResponses(cloud))

\* a faulty variant of GetConnectors: a failed listing is requested again
GetConnectors_retry ==
    /\ pc = "get_connectors"
    /\ IF ConnectorsRequested(bearer_token)
       THEN \E resp \in ConnectorResponses :
              /\ trace' = Append(trace, "connector_list")
              /\ stdout' = stdout \o get_connectors(resp).out
              /\ pc' = IF get_connectors(resp).out = <<"connectors_found">>
                          \/ Len(trace) > 6
                       THEN "get_assets" ELSE "get_connectors"
       ELSE /\ pc' = "get_assets"
            /\ UNCHANGED <<browser, trace, stdout>>
    /\ UNCHANGED <<browser, cloud, account_map, auth_resp, bearer_token, account_aliases, aws_resp, v3_resp,
                   host_resp, assets, csv_file, html_file, exit_code>>

\* client.get_connectors(args.cloud); the list it returns is not used
GetConnectors ==
    /\ pc = "get_connectors"
    /\ IF ConnectorsRequested(bearer_token)
       THEN \E resp \in ConnectorResponses :
              /\ trace' = Append(trace, "connector_list")
              /\ stdout' = stdout \o get_connectors(resp).out
       ELSE UNCHANGED <<browser, trace, stdout>>
    /\ pc' = "get_assets"
    /\ UNCHANGED <<browser, cloud, account_map, auth_resp, bearer_token, account_aliases, aws_resp, v3_resp,
                   host_resp, assets, csv_file, html_file, exit_code>>

\* a faulty variant of GetAssets: main does not leave when the list is empty
GetAssets_no_early_exit(responses) ==
    /\ pc = "get_assets"
    /\ \E resp \in responses :
         LET r == get_assets_without_agent(cloud, account_aliases, resp)
         IN  /\ host_resp' = <<resp>>
             /\ assets' = r.assets
             /\ trace' = Append(trace, "hostasset_search")
             /\ stdout' = stdout \o r.out
             /\ pc' = "generate_csv"
             /\ exit_code' = exit_code
    /\ UNCHANGED <<browser, cloud, account_map, auth_resp, bearer_token, account_aliases, aws_resp, v3_resp,
                   csv_file, html_file>>

\* assets = client.get_assets_without_agent(...), and sys.exit(0) on an empty list
GetAssets(responses) ==
    /\ pc = "get_assets"
    /\ \E resp \in responses :
         LET r == get_assets_without_agent(cloud, account_aliases, resp)
         IN  /\ host_resp' = <<resp>>
             /\ assets' = r.assets
             /\ trace' = Append(trace, "hostasset_search")
             /\ stdout' = stdout \o r.out
                            \o (IF r.assets = <<>> THEN <<"no_vms_found">> ELSE <<>>)
             /\ pc' = IF r.assets = <<>> THEN "exited" ELSE "generate_csv"
             /\ exit_code' = IF r.assets = <<>> THEN <<0>> ELSE exit_code
    /\ UNCHANGED <<browser, cloud, account_map, auth_resp, bearer_token, account_aliases, aws_resp, v3_resp,
                   csv_file, html_file>>

\* generate_csv_report(assets, f"{args.output}.csv")
GenerateCsv ==
    /\ pc = "generate_csv"
    /\ LET r == generate_csv_report(assets)
       IN  /\ csv_file' = r.file
           /\ trace' = IF r.file # <<>> THEN Append(trace, "write_csv") ELSE trace
           /\ stdout' = stdout \o r.out
    /\ pc' = "generate_html"
    /\ UNCHANGED <<browser, cloud, account_map, auth_resp, bearer_token, account_aliases, aws_resp, v3_resp,
                   host_resp, assets, html_file, exit_code>>

\* generate_html_report(assets, f"{args.output}.html", args.platform), the
\* summary, and the return of main
GenerateHtml ==
    /\ pc = "generate_html"
    /\ LET r == generate_html_report(assets)
       IN  /\ html_file' = r.file
           /\ trace' = Append(trace, "write_html")
           /\ stdout' = stdout \o r.out \o <<"summary">>
    /\ pc' = "exited"
    /\ exit_code' = <<0>>
    /\ UNCHANGED <<browser, cloud, account_map, auth_resp, bearer_token, account_aliases, aws_resp, v3_resp,
                   host_resp, assets, csv_file>>

MainGetAssets == GetAssets(MainHostResponses)

Next ==
    \/ Authenticate
    \/ LoadAccountMap
    \/ FetchAccountAliases
    \/ GetConnectors
    \/ MainGetAssets
    \/ GenerateCsv
    \/ GenerateHtml

Spec == Init /\ [][Next]_vars


(***************************************************************************)
(* The asset pipeline on its own: main() at the call of                    *)
(* get_assets_without_agent, after a login and an alias step, with the     *)
(* wider set of host-asset responses.                                      *)
(***************************************************************************)
OneAliasResponse(cloud_type) ==
    JsonResponse([ServiceResponse |->
        [data |-> <<CHOOSE it \in DataConnectorItems(cloud_type) :
                      PathGet(it[ApiConfig(cloud_type).connector_key],
                              ApiConfig(cloud_type).id_field) = <<"1">> >>]])

InitAssets ==
    /\ browser = NoBrowser
    /\ pc = "get_assets"
    /\ cloud \in CloudChoices
    /\ account_map = [given |-> FALSE, readable |-> FALSE, content |-> EmptyDict]
    /\ auth_resp = <<Response(FALSE, 200, <<"t", "\n">>, <<>>)>>
    /\ bearer_token = <<<<"t">>>>
    /\ aws_resp = IF cloud = AWS THEN <<TransportError>> ELSE <<>>
    /\ v3_resp = <<OneAliasResponse(cloud)>>
    /\ account_aliases = AliasesFromDataConnectors(EmptyDict, cloud, v3_resp[1]).aliases
    /\ host_resp = <<>>
    /\ assets = <<>>
    /\ csv_file = <<>>
    /\ html_file = <<>>
    /\ exit_code = <<>>
    /\ trace = <<"auth">> \o (IF cloud = AWS THEN <<"aws_connector_list">> ELSE <<>>)
                 \o <<"data_connector_list", "connector_list">>
    /\ stdout = <<"authenticated">>
                  \o AliasesFromDataConnectors(EmptyDict, cloud, v3_resp[1]).out
                  \o <<"connectors_error">>

RichGetAssets == GetAssets(HostResponses)

NextAssets == RichGetAssets

SpecAssets == InitAssets /\ [][NextAssets]_vars

(***************************************************************************)
(* The alias resolver on its own: main() at the call of                    *)
(* fetch_account_aliases, after a login and the override file, with        *)
(* listings of several entries; then a second call on the same client that *)
(* receives the same responses.                                            *)
(***************************************************************************)
\* entries of the Connector v1.0 listing, also without id or alias
AliasAwsConns ==
    AwsConns
    \cup {[accountAlias |-> <<"D">>], [awsAccountId |-> <<"2">>, description |-> <<"E">>]}

\* entries of the v3.0 listing, also without id or alias or with another alias
AliasDataItems(cloud_type) ==
    DataConnectorItems(cloud_type) \cup
    (CASE cloud_type = AWS ->
           {("AwsAssetDataConnector" :> c) : c \in
               {[awsAccountId |-> JStr(<<"1">>), name |-> <<"W">>],
                [awsAccountId |-> JStr(<<"1">>)],
                [accountAlias |-> <<"V">>]}}
       [] cloud_type = AZURE ->
           {("AzureAssetDataConnector" :> c) : c \in
               {[authRecord |-> JDict([subscriptionId |-> JStr(<<"1">>)]), name |-> <<"W">>],
                [authRecord |-> JDict([subscriptionId |-> JStr(<<"1">>)])],
                [name |-> <<"V">>]}}
       [] cloud_type = GCP ->
           {("GcpAssetDataConnector" :> c) : c \in
               {[authRecord |-> JDict([projectId |-> JStr(<<"1">>)]), name |-> <<"W">>],
                [authRecord |-> JDict(EmptyDict), name |-> <<"V">>],
                [name |-> <<"V">>]}})

AliasAwsResponses ==
    FailedResponses \cup {JsonResponse(EmptyDict)}
    \cup {JsonResponse([content |-> c]) : c \in SeqsUpTo(AliasAwsConns, MaxAliasEntries)}

AliasDataResponses(cloud_type) ==
    FailedResponses \cup {JsonResponse(EmptyDict)}
    \cup {JsonResponse([ServiceResponse |-> [data |-> c]])
            : c \in SeqsUpTo(AliasDataItems(cloud_type), MaxAliasEntries)}

InitAliases ==
    /\ browser = NoBrowser
    /\ pc = "fetch_account_aliases"
    /\ cloud \in CloudChoices
    /\ account_map \in {m \in AccountMaps : m.given = m.readable /\ m.given = Truthy(m.content)}
    /\ auth_resp = <<Response(FALSE, 200, <<"t", "\n">>, <<>>)>>
    /\ bearer_token = <<<<"t">>>>
    /\ account_aliases = account_map.content
    /\ aws_resp = <<>>
    /\ v3_resp = <<>>
    /\ host_resp = <<>>
    /\ assets = <<>>
    /\ csv_file = <<>>
    /\ html_file = <<>>
    /\ exit_code = <<>>
    /\ trace = <<"auth">> \o (IF account_map.given THEN <<"read_account_map">> ELSE <<>>)
    /\ stdout = <<"authenticated">>
                  \o (IF account_map.given THEN <<"aliases_loaded">> ELSE <<>>)

ResolveAliases == FetchAliases(AliasAwsResponses, AliasDataResponses(cloud))

\* fetch_account_aliases called once more on the same client, the listings
\* answering as they did
ResolveAliasesAgain ==
    /\ pc = "get_connectors"
    /\ LET r == fetch_account_aliases(account_aliases, bearer_token, cloud, aws_resp, v3_resp)
       IN  /\ account_aliases' = r.aliases
           /\ trace' = trace
                         \o (IF aws_resp # <<>> THEN <<"aws_connector_list">> ELSE <<>>)
                         \o (IF v3_resp # <<>> THEN <<"data_connector_list">> ELSE <<>>)
           /\ stdout' = stdout \o r.out
    /\ pc' = "fetched_again"
    /\ UNCHANGED <<browser, cloud, account_map, auth_resp, bearer_token, aws_resp, v3_resp, host_resp,
                   assets, csv_file, html_file, exit_code>>

NextAliases == ResolveAliases \/ ResolveAliasesAgain

SpecAliases == InitAliases /\ [][NextAliases]_vars

(***************************************************************************)
(* The mapping of one record: main() at the call of                        *)
(* get_assets_without_agent with a response of one host record, drawn from *)
(* records that are full, sparse, hold several source-info entries, or     *)
(* differ in where they were seen.                                         *)
(***************************************************************************)
Stopped == <<"s","t","o","p","p","e","d">>

TagList(tag_key, value) == <<(tag_key :> [key |-> <<"k">>, value |-> value])>>

\* what the platform sends for an entry of provider p; n tells entries apart
NaturalInfo(p, n) ==
    CASE p = AWS ->
           [accountId |-> <<"A", n>>, region |-> <<"r", n>>, instanceId |-> <<"i", n>>,
            instanceType |-> <<"t", n>>, instanceState |-> Running,
            privateIpAddress |-> <<"1", "0", n>>, publicIpAddress |-> <<"5", n>>,
            ec2InstanceTags |-> [tags |-> [list |-> TagList("EC2Tags", <<"e", n>>)]]]
      [] p = AZURE ->
           [subscriptionId |-> <<"S", n>>, location |-> <<"l", n>>, vmId |-> <<"v", n>>,
            vmSize |-> <<"s", n>>, state |-> Running,
            privateIpAddress |-> <<"1", "0", n>>, publicIpAddress |-> <<"5", n>>,
            azureVmTags |-> [tags |-> [list |-> TagList("AzureTags", <<"a", n>>)]]]
      [] p = GCP ->
           [projectId |-> <<"P", n>>, zone |-> <<"z", n>>, instanceId |-> <<"i", n>>,
            machineType |-> <<"m", n>>, state |-> Running,
            privateIpAddress |-> <<"1", "0", n>>, publicIpAddress |-> <<"5", n>>,
            labels |-> [list |-> TagList("GcpLabels", <<"g", n>>)]]

\* the key of the source-info entry of provider p
CloudKey(p) ==
    CASE p = AWS -> "Ec2AssetSourceSimple"
      [] p = AZURE -> "AzureAssetSourceSimple"
      [] p = GCP -> "GcpAssetSourceSimple"

NaturalEntry(p, n) == (CloudKey(p) :> NaturalInfo(p, n))

\* an entry that holds every key of the three providers, each with its own value
FullInfo ==
    [accountId |-> <<"A">>, subscriptionId |-> <<"S">>, projectId |-> <<"P">>,
     region |-> <<"r">>, location |-> <<"l">>, zone |-> <<"z">>,
     instanceId |-> <<"i">>, vmId |-> <<"v">>,
     instanceType |-> <<"t">>, vmSize |-> <<"s">>, machineType |-> <<"m">>,
     instanceState |-> Running, state |-> Stopped,
     privateIpAddress |-> <<"1", "0">>, publicIpAddress |-> <<"5">>,
     ec2InstanceTags |-> [tags |-> [list |-> TagList("EC2Tags", <<"e">>)]],
     azureVmTags |-> [tags |-> [list |-> TagList("AzureTags", <<"a">>)]],
     labels |-> [list |-> TagList("GcpLabels", <<"g">>)]]

FullEntry(p) == (CloudKey(p) :> FullInfo)

\* the account id alone, under the key of provider p
AccountOnly(p) ==
    CASE p = AWS -> [accountId |-> <<"A">>]
      [] p = AZURE -> [subscriptionId |-> <<"S">>]
      [] p = GCP -> [projectId |-> <<"P">>]

\* tag containers with parts absent
SparseTagLists ==
    {<<>>, <<EmptyDict>>, <<[EC2Tags |-> EmptyDict]>>,
     <<[EC2Tags |-> [key |-> <<"k">>]]>>, <<[EC2Tags |-> [value |-> <<"v">>]]>>,
     <<[EC2Tags |-> [key |-> <<"k">>, value |-> <<"v">>]],
       [EC2Tags |-> [key |-> <<"k">>, value |-> <<"w">>]]>>}

SparseInfos ==
    {EmptyDict}
    \cup {AccountOnly(p) : p \in CloudChoices}
    \cup {[accountId |-> <<"A">>, ec2InstanceTags |-> EmptyDict],
          [accountId |-> <<"A">>, ec2InstanceTags |-> [tags |-> EmptyDict]],
          [subscriptionId |-> <<"S">>, azureVmTags |-> [tags |-> EmptyDict]],
          [projectId |-> <<"P">>, labels |-> EmptyDict]}
    \cup {[accountId |-> <<"A">>, ec2InstanceTags |-> [tags |-> [list |-> l]]]
             : l \in SparseTagLists}

AgentEntry == ("AgentAssetSource" :> EmptyDict)
ScannerEntry == ("QualysAssetSource" :> EmptyDict)
UnknownEntry == ("OtherAssetSource" :> EmptyDict)

\* source-info lists of several entries, each entry of one type
EntryLists ==
    {<<NaturalEntry(p, "1"), NaturalEntry(q, "2")>> : p \in CloudChoices, q \in CloudChoices}
    \cup {<<e, NaturalEntry(p, "1")>> : e \in {GenericEntry, AgentEntry}, p \in CloudChoices}
    \cup {<<ScannerEntry, NaturalEntry(AWS, "1"), AgentEntry, ScannerEntry>>,
          <<NaturalEntry(GCP, "1"), UnknownEntry, ScannerEntry>>,
          <<ScannerEntry>>, <<GenericEntry>>, <<UnknownEntry>>, <<GenericEntry, UnknownEntry>>}

TrackingMethods ==
    {<<>>, <<<<"Q","A","G","E","N","T">>>>, <<<<"V","M","_","I","D">>>>,
     <<<<"N","E","T","B","I","O","S">>>>, <<<<"X">>>>}

\* a host record: the keys of the host itself are all there or all absent
MappingHost(source_info, tracking, present) ==
    DictFrom({<<"sourceInfo", source_info>>, <<"trackingMethod", tracking>>,
              <<"id", IF present THEN <<7>> ELSE <<>> >>,
              <<"name", IF present THEN <<<<"h">>>> ELSE <<>> >>,
              <<"cloudProvider", IF present THEN <<<<"a","w","s">>>> ELSE <<>> >>,
              <<"created", IF present THEN <<<<"2","0","2","4">>>> ELSE <<>> >>,
              <<"modified", IF present THEN <<<<"2","0","2","5">>>> ELSE <<>> >>})

MappingHosts ==
    {MappingHost(<<JDict([list |-> <<FullEntry(p)>>])>>, <<<<"I","P">>>>, TRUE)
        : p \in CloudChoices}
    \cup {MappingHost(<<JDict([list |-> <<(CloudKey(p) :> info)>>])>>, <<>>, FALSE)
             : p \in CloudChoices, info \in SparseInfos}
    \cup {MappingHost(<<JDict([list |-> l])>>, <<<<"I","P">>>>, TRUE) : l \in EntryLists}
    \cup {MappingHost(si, t, FALSE)
             : si \in {<<>>, <<JDict(EmptyDict)>>, <<JDict([list |-> <<>>])>>,
                       <<JDict([list |-> <<GenericEntry>>])>>},
               t \in TrackingMethods}

MappingResponses ==
    {JsonResponse([ServiceResponse |-> [data |-> <<[HostAsset |-> <<h>>]>>]])
        : h \in MappingHosts}
    \cup {JsonResponse([ServiceResponse |-> [data |-> <<EmptyDict>>]])}

MapOneRecord == GetAssets(MappingResponses)

NextMapping == MapOneRecord

SpecMapping == InitAssets /\ [][NextMapping]_vars

(***************************************************************************)
(* The renderers on their own: main() at the call of generate_csv_report   *)
(* with a non-empty list whose strings hold quotes, commas and newlines.   *)
(***************************************************************************)
ReportStrings ==
    {<<>>, <<DQ>>, <<",">>, <<"<", DQ, ",">>, <<"\n">>}

ReportTags == {<<>>, << <<<<"k">>, <<"v", DQ>>>> >>}

ReportAsset(name, alias, tags) ==
    [asset_id |-> <<"7">>, name |-> name, cloud_provider |-> AWS,
     account_id |-> <<"1">>, account_alias |-> alias, region |-> name,
     instance_id |-> <<"i">>, instance_type |-> EmptyStr, private_ip |-> EmptyStr,
     public_ip |-> EmptyStr, state |-> Running, source |-> SCANNER,
     created |-> EmptyStr, last_updated |-> EmptyStr, tags |-> tags]

ReportAssets ==
    {ReportAsset(n, a, t) : n \in ReportStrings, a \in {<<>>, <<DQ>>}, t \in ReportTags}

InitReports ==
    /\ browser = NoBrowser
    /\ pc = "generate_csv"
    /\ cloud = AWS
    /\ account_map = [given |-> FALSE, readable |-> FALSE, content |-> EmptyDict]
    /\ auth_resp = <<Response(FALSE, 200, <<"t", "\n">>, <<>>)>>
    /\ bearer_token = <<<<"t">>>>
    /\ aws_resp = <<TransportError>>
    /\ v3_resp = <<TransportError>>
    /\ account_aliases = EmptyDict
    /\ host_resp = <<>>
    /\ assets \in SeqsUpTo(ReportAssets, MaxCsvAssets) \ {<<>>}
    /\ csv_file = <<>>
    /\ html_file = <<>>
    /\ exit_code = <<>>
    /\ trace = <<"auth", "aws_connector_list", "data_connector_list", "connector_list",
                 "hostasset_search">>
    /\ stdout = <<"authenticated", "aliases_error", "connectors_error", "assets_found">>

NextReports == GenerateCsv \/ GenerateHtml

SpecReports == InitReports /\ [][NextReports]_vars


(***************************************************************************)
(* The report in the browser: main() at the call of generate_html_report,  *)
(* then the reader choosing filters and exporting the visible rows.        *)
(***************************************************************************)
BrowserAssets ==
    {ReportAsset(n, a, <<>>) : n \in {<<"a">>, <<"<", DQ, ",">>}, a \in {<<>>, <<DQ>>}}

InitBrowser ==
    /\ browser = NoBrowser
    /\ pc = "generate_html"
    /\ cloud = AWS
    /\ account_map = [given |-> FALSE, readable |-> FALSE, content |-> EmptyDict]
    /\ auth_resp = <<Response(FALSE, 200, <<"t", "\n">>, <<>>)>>
    /\ bearer_token = <<<<"t">>>>
    /\ aws_resp = <<TransportError>>
    /\ v3_resp = <<TransportError>>
    /\ account_aliases = EmptyDict
    /\ host_resp = <<>>
    /\ assets \in SeqsUpTo(BrowserAssets, MaxBrowserRows) \ {<<>>}
    /\ csv_file = generate_csv_report(assets).file
    /\ html_file = <<>>
    /\ exit_code = <<>>
    /\ trace = <<"auth", "aws_connector_list", "data_connector_list", "connector_list",
                 "hostasset_search", "write_csv">>
    /\ stdout = <<"authenticated", "aliases_error", "connectors_error", "assets_found",
                  "csv_report">>

\* the reader picks an account and a region in the two select boxes
FilterTable ==
    /\ html_file # <<>>
    /\ \E account \in {EmptyStr} \cup {TextContent(o.value) : o \in html_file[1].account_options},
          region \in {EmptyStr} \cup {TextContent(o.value) : o \in html_file[1].region_options} :
         browser' = [browser EXCEPT !.hidden = filterTable(html_file[1], account, region)]
    /\ UNCHANGED <<pc, cloud, account_map, auth_resp, bearer_token, account_aliases, aws_resp,
                   v3_resp, host_resp, assets, csv_file, html_file, exit_code, trace, stdout>>

\* the reader presses "Export Filtered CSV"
ExportVisible ==
    /\ html_file # <<>>
    /\ browser' = [browser EXCEPT !.exported = <<exportVisible(html_file[1], browser.hidden)>>]
    /\ UNCHANGED <<pc, cloud, account_map, auth_resp, bearer_token, account_aliases, aws_resp,
                   v3_resp, host_resp, assets, csv_file, html_file, exit_code, trace, stdout>>

NextBrowser == GenerateHtml \/ FilterTable \/ ExportVisible

SpecBrowser == InitBrowser /\ [][NextBrowser]_vars


(***************************************************************************)
(* What the claims speak about.                                            *)
(***************************************************************************)
\* the login was refused: a transport exception or a status other than 200/201
AuthFailed ==
    auth_resp # <<>> /\ (auth_resp[1].raises \/ auth_resp[1].status_code \notin {200, 201})

AuthSucceeded ==
    auth_resp # <<>> /\ ~auth_resp[1].raises /\ auth_resp[1].status_code \in {200, 201}

\* fetch_account_aliases has returned
AliasesResolved == v3_resp # <<>>

\* get_assets_without_agent has returned
AssetsFetched == host_resp # <<>>

\* the host-asset response arrived with status 200 and a JSON body
HostResponseOk ==
    /\ host_resp # <<>>
    /\ ~host_resp[1].raises
    /\ host_resp[1].status_code = 200
    /\ host_resp[1].json # <<>>

\* the records of the host-asset response
HostData ==
    IF HostResponseOk
    THEN Get(Get(host_resp[1].json[1], "ServiceResponse", EmptyDict), "data", <<>>)
    ELSE <<>>

\* the element is a host record; otherwise processing it raises or finds nothing
IsHostRecord(item) == "HostAsset" \in DOMAIN item /\ item["HostAsset"] # <<>>

\* processing the element raises
RaisesOn(item) == "HostAsset" \in DOMAIN item /\ item["HostAsset"] = <<>>

\* the asset id the record of position i is reported under
RecordId(i) == IntToStr(HostData[i]["HostAsset"][1]["id"])

\* the fields the mapping reads from the record of position i
Mapped(i) ==
    MapFields(cloud, FindCloudInfo(SourceList(HostData[i]["HostAsset"][1])).cloud_info)

LowerChar(c) ==
    IF \E i \in 1..Len(UpperLetters) : UpperLetters[i] = c
    THEN LowerLetters[CHOOSE i \in 1..Len(UpperLetters) : UpperLetters[i] = c]
    ELSE c

\* equality of two strings without regard to case
SameIgnoringCase(s, t) ==
    /\ Len(s) = Len(t)
    /\ \A i \in 1..Len(s) : LowerChar(s[i]) = LowerChar(t[i])

\* the indices in S in increasing order
RECURSIVE Ascending(_)
Ascending(S) ==
    IF S = {} THEN <<>>
    ELSE LET m == CHOOSE x \in S : \A y \in S : x <= y
         IN  <<m>> \o Ascending(S \ {m})

\* the first position whose processing raises, or one past the end
FirstRaising ==
    IF \E i \in 1..Len(HostData) : RaisesOn(HostData[i])
    THEN CHOOSE i \in 1..Len(HostData) :
            /\ RaisesOn(HostData[i])
            /\ \A j \in 1..(i - 1) : ~RaisesOn(HostData[j])
    ELSE Len(HostData) + 1

\* the assets are those of the records at the positions idx, one each, in order
AssetsAreRecords(idx) ==
    /\ Len(assets) = Len(idx)
    /\ \A k \in 1..Len(idx) :
         /\ assets[k].asset_id = RecordId(idx[k])
         /\ assets[k].account_id = Mapped(idx[k]).account_id
         /\ assets[k].state = Mapped(idx[k]).state

(***************************************************************************)
(* C1  Alias precedence: once the aliases are resolved, every id of the    *)
(* override file maps to the file's alias in the alias map, and every      *)
(* asset of such an account carries the file's alias.                      *)
(* The Connector v1.0 listing overwrites the entry (AWS): the code fails.  *)
(***************************************************************************)
C1_OverrideFileWins ==
    (AliasesResolved /\ account_map.given /\ account_map.readable) =>
        /\ \A id \in DOMAIN account_map.content :
              /\ id \in DOMAIN account_aliases
              /\ account_aliases[id] = account_map.content[id]
        /\ \A i \in 1..Len(assets) :
              assets[i].account_id \in DOMAIN account_map.content =>
                 assets[i].account_alias = account_map.content[assets[i].account_id]

(***************************************************************************)
(* C2  Empty input, as claimed: a run whose asset fetch yields no asset    *)
(* ends with no CSV file, an HTML file that reports zero counts, and exit  *)
(* code 0.                                                                 *)
(***************************************************************************)
C2_EmptyStillWritesHtml ==
    (pc = "exited" /\ AssetsFetched /\ assets = <<>>) =>
        /\ csv_file = <<>>
        /\ html_file # <<>>
        /\ html_file[1].total = 0
        /\ exit_code = <<0>>

(***************************************************************************)
(* C2  Empty input, as the code has it: a run whose asset fetch yields no  *)
(* asset prints the "no VMs found" message and ends with exit code 0       *)
(* straight after the fetch; it writes neither report and never reaches    *)
(* the CSV renderer's warning.                                             *)
(***************************************************************************)
C2_EmptyWritesNoReport ==
    (AssetsFetched /\ assets = <<>>) =>
        /\ pc = "exited"
        /\ exit_code = <<0>>
        /\ csv_file = <<>>
        /\ html_file = <<>>
        /\ stdout[Len(stdout)] = "no_vms_found"
        /\ \A i \in 1..Len(stdout) : stdout[i] # "csv_warning"
        /\ trace[Len(trace)] = "hostasset_search"

\* a response with records, none of which qualifies, ended the run
C2_Witness ==
    /\ pc = "exited"
    /\ HostResponseOk
    /\ Len(HostData) >= 1
    /\ assets = <<>>
    /\ exit_code = <<0>>

(***************************************************************************)
(* C3  As claimed: no returned asset is built from a record in which an    *)
(* agentInfo entry is present.                                             *)
(***************************************************************************)
C3_AgentInfoPresentDropped ==
    \A i \in 1..Len(HostData) :
        (IsHostRecord(HostData[i]) /\ "agentInfo" \in DOMAIN HostData[i]["HostAsset"][1]) =>
            \A k \in 1..Len(assets) : assets[k].asset_id # RecordId(i)

(***************************************************************************)
(* C3  As the code has it: no returned asset is built from a record whose  *)
(* agentInfo value is non-empty, whatever its other fields are.            *)
(***************************************************************************)
C3_AgentDataDropped ==
    \A i \in 1..Len(HostData) :
        (/\ IsHostRecord(HostData[i])
         /\ "agentInfo" \in DOMAIN HostData[i]["HostAsset"][1]
         /\ HostData[i]["HostAsset"][1]["agentInfo"] # EmptyDict) =>
            \A k \in 1..Len(assets) : assets[k].asset_id # RecordId(i)

\* a record with agent data was dropped from a response that also gave an asset
C3_Witness ==
    /\ assets # <<>>
    /\ \E i \in 1..Len(HostData) :
         /\ IsHostRecord(HostData[i])
         /\ "agentInfo" \in DOMAIN HostData[i]["HostAsset"][1]
         /\ HostData[i]["HostAsset"][1]["agentInfo"] # EmptyDict
         /\ Truthy(Mapped(i).account_id)
         /\ i < FirstRaising

(***************************************************************************)
(* C4  Every returned asset has a non-empty account_id and a state that    *)
(* differs from "TERMINATED" when case is ignored.                         *)
(***************************************************************************)
C4_AccountAndStateOfOutput ==
    \A k \in 1..Len(assets) :
        /\ assets[k].account_id # EmptyStr
        /\ ~SameIgnoringCase(assets[k].state, TERMINATED)

\* an asset was returned from a response that also held a record in a
\* terminated state written in mixed case and a record without an account
C4_Witness ==
    /\ assets # <<>>
    /\ cloud = AZURE
    /\ \E i \in 1..Len(HostData) :
         /\ IsHostRecord(HostData[i])
         /\ Mapped(i).state = Terminated
         /\ Truthy(Mapped(i).account_id)
         /\ i < FirstRaising

(***************************************************************************)
(* C5  As claimed: the returned list holds exactly one asset for each      *)
(* record that has no agentInfo entry, a mapped state other than           *)
(* TERMINATED (case ignored) and a non-empty mapped account_id, in the     *)
(* order of the response.                                                  *)
(***************************************************************************)
C5_OnePerPassingRecord ==
    HostResponseOk =>
        AssetsAreRecords(Ascending(
            {i \in 1..Len(HostData) :
                /\ IsHostRecord(HostData[i])
                /\ "agentInfo" \notin DOMAIN HostData[i]["HostAsset"][1]
                /\ ~SameIgnoringCase(Mapped(i).state, TERMINATED)
                /\ Mapped(i).account_id # EmptyStr}))

(***************************************************************************)
(* C5  As the code has it: the returned list holds exactly one asset, in   *)
(* the order of the response, for each record that comes before the first  *)
(* element whose processing raises (all records when none raises) and that *)
(* has no agentInfo entry or an empty one, a mapped state other than       *)
(* TERMINATED (case ignored) and a non-empty mapped account_id.            *)
(***************************************************************************)
C5_OnePerKeptRecord ==
    /\ HostResponseOk =>
        AssetsAreRecords(Ascending(
            {i \in 1..(FirstRaising - 1) :
                /\ IsHostRecord(HostData[i])
                /\ ("agentInfo" \in DOMAIN HostData[i]["HostAsset"][1] =>
                       HostData[i]["HostAsset"][1]["agentInfo"] = EmptyDict)
                /\ ~SameIgnoringCase(Mapped(i).state, TERMINATED)
                /\ Mapped(i).account_id # EmptyStr}))
    /\ ~HostResponseOk => assets = <<>>

\* both records of a two-record response were kept, in response order
C5_Witness ==
    /\ Len(assets) = 2
    /\ Len(HostData) = 2
    /\ assets[1].asset_id = <<"1">>
    /\ assets[2].asset_id = <<"2">>

(***************************************************************************)
(* C6  A refused login ends the run at once with exit code 1: nothing but  *)
(* the login request has been made and no file is written.                 *)
(***************************************************************************)
C6_AuthFailureIsFatal ==
    AuthFailed =>
        /\ pc = "exited"
        /\ exit_code = <<1>>
        /\ trace = <<"auth">>
        /\ aws_resp = <<>>
        /\ v3_resp = <<>>
        /\ host_resp = <<>>
        /\ csv_file = <<>>
        /\ html_file = <<>>

\* the login was answered with a status other than 200/201 and the run is over
C6_Witness ==
    /\ AuthFailed
    /\ ~auth_resp[1].raises
    /\ pc = "exited"

(***************************************************************************)
(* C7  After a successful login the run is never aborted: it never ends    *)
(* with a code other than 0, and until it has ended a next step is always  *)
(* possible, whatever fails among the override file, the alias sources,    *)
(* the connector listing and the host-asset query.                         *)
(***************************************************************************)
C7_NoAbortAfterLogin ==
    AuthSucceeded =>
        /\ exit_code \in {<<>>, <<0>>}
        /\ (pc = "exited" <=> exit_code = <<0>>)

\* every later step failed and the run ended with code 0
C7_Witness ==
    /\ AuthSucceeded
    /\ pc = "exited"
    /\ exit_code = <<0>>
    /\ account_map.given /\ ~account_map.readable
    /\ aws_resp # <<>> /\ aws_resp[1].status_code # 200
    /\ v3_resp # <<>> /\ v3_resp[1].raises
    /\ \E i \in 1..Len(stdout) : stdout[i] = "connectors_error"
    /\ host_resp # <<>> /\ host_resp[1].status_code # 200

(***************************************************************************)
(* C8  As claimed: when the host-asset step fails (exception, status other *)
(* than 200, undecodable body, or an exception while the records are       *)
(* processed) the returned list is empty.                                  *)
(* An exception in the loop leaves the assets appended before it in the    *)
(* list: the code fails.                                                   *)
(***************************************************************************)
C8_FailedFetchIsEmpty ==
    (AssetsFetched /\ (~HostResponseOk \/ \E i \in 1..Len(HostData) : RaisesOn(HostData[i])))
        => assets = <<>>

(***************************************************************************)
(* C9  The external operations of a run happen in the order login,         *)
(* override file, Connector v1.0 alias listing, asset-data-connector       *)
(* listing, connector listing, host-asset query, CSV file, HTML file, each *)
(* at most once, and a report file exists only after the host-asset query  *)
(* has returned.                                                           *)
(***************************************************************************)
StepRank(step) ==
    CASE step = "auth" -> 1
      [] step = "read_account_map" -> 2
      [] step = "aws_connector_list" -> 3
      [] step = "data_connector_list" -> 4
      [] step = "connector_list" -> 5
      [] step = "hostasset_search" -> 6
      [] step = "write_csv" -> 7
      [] step = "write_html" -> 8

C9_StrictlySequential ==
    /\ \A i \in 1..Len(trace) : \A j \in 1..Len(trace) :
           i < j => StepRank(trace[i]) < StepRank(trace[j])
    /\ (csv_file # <<>> \/ html_file # <<>>) => AssetsFetched
    /\ html_file # <<>> => csv_file # <<>>

\* a run that performed every operation
C9_Witness ==
    /\ pc = "exited"
    /\ Len(trace) = 8

(***************************************************************************)
(* C10  The CSV file of N >= 1 assets is one header row with the fifteen   *)
(* column names in the stated order, then one row for each asset in input  *)
(* order; reading a row as quoted fields (every field wrapped in double    *)
(* quotes, a doubled quote inside standing for one quote) gives back the   *)
(* fifteen values of the asset.                                            *)
(***************************************************************************)
ExpectedCsvHeader ==
    <<"A","s","s","e","t"," ","I","D">> \o <<",">> \o
    <<"N","a","m","e">> \o <<",">> \o
    <<"C","l","o","u","d"," ","P","r","o","v","i","d","e","r">> \o <<",">> \o
    <<"A","c","c","o","u","n","t"," ","I","D">> \o <<",">> \o
    <<"A","c","c","o","u","n","t"," ","A","l","i","a","s">> \o <<",">> \o
    <<"R","e","g","i","o","n">> \o <<",">> \o
    <<"I","n","s","t","a","n","c","e"," ","I","D">> \o <<",">> \o
    <<"I","n","s","t","a","n","c","e"," ","T","y","p","e">> \o <<",">> \o
    <<"P","r","i","v","a","t","e"," ","I","P">> \o <<",">> \o
    <<"P","u","b","l","i","c"," ","I","P">> \o <<",">> \o
    <<"S","t","a","t","e">> \o <<",">> \o
    <<"S","o","u","r","c","e">> \o <<",">> \o
    <<"C","r","e","a","t","e","d">> \o <<",">> \o
    <<"L","a","s","t"," ","U","p","d","a","t","e","d">> \o <<",">> \o
    <<"T","a","g","s">> \o <<"\n">>

\* the values of one asset in the order of the columns
ExpectedCsvValues(a) ==
    <<a.asset_id, a.name, a.cloud_provider, a.account_id, a.account_alias, a.region,
      a.instance_id, a.instance_type, a.private_ip, a.public_ip, a.state, a.source,
      a.created, a.last_updated,
      IF a.tags = <<>> THEN EmptyStr ELSE json_dumps(a.tags)>>

\* the quotes among the first k characters of s
QuotesUpTo(s, k) == Cardinality({m \in 1..k : s[m] = DQ})

\* the text between the quotes of a field, each doubled quote read as one
Undoubled(raw) ==
    LET keep == {k \in 1..Len(raw) : raw[k] # DQ \/ QuotesUpTo(raw, k) % 2 = 0}
    IN  [n \in 1..Cardinality(keep) |->
            raw[CHOOSE k \in keep : Cardinality({m \in keep : m <= k}) = n]]

\* reads row as quoted fields from position i, where a field must open; the
\* quote that closes a field is the first one that is not half of a doubled
\* quote.  fields are the fields read so far
RECURSIVE ReadCsvRow(_, _, _)
ReadCsvRow(row, i, fields) ==
    IF i > Len(row) \/ row[i] # DQ THEN [ok |-> FALSE, fields |-> fields]
    ELSE LET rest == SubSeq(row, i + 1, Len(row))
             closes == {j \in 1..Len(rest) :
                          /\ rest[j] = DQ
                          /\ QuotesUpTo(rest, j) % 2 = 1
                          /\ (j = Len(rest) \/ rest[j + 1] # DQ)}
         IN  IF closes = {} THEN [ok |-> FALSE, fields |-> fields]
             ELSE LET j == CHOOSE x \in closes : \A y \in closes : x <= y
                      read == Append(fields, Undoubled(SubSeq(rest, 1, j - 1)))
                  IN  IF j + 1 = Len(rest) /\ rest[j + 1] = "\n"
                      THEN [ok |-> TRUE, fields |-> read]
                      ELSE IF j + 1 < Len(rest) /\ rest[j + 1] = ","
                           THEN ReadCsvRow(row, i + j + 2, read)
                           ELSE [ok |-> FALSE, fields |-> fields]

C10_CsvRoundTrip ==
    (pc \in {"generate_html", "exited"} /\ assets # <<>>) =>
        /\ csv_file # <<>>
        /\ Len(csv_file[1]) = Len(assets) + 1
        /\ csv_file[1][1] = ExpectedCsvHeader
        /\ \A i \in 1..Len(assets) :
              LET r == ReadCsvRow(csv_file[1][i + 1], 1, <<>>)
              IN  r.ok /\ r.fields = ExpectedCsvValues(assets[i])

\* two assets were written, one of them with a quote in its name and tags
C10_Witness ==
    /\ csv_file # <<>>
    /\ Len(assets) = 2
    /\ \E i \in 1..2 :
         /\ \E j \in 1..Len(assets[i].name) : assets[i].name[j] = DQ
         /\ assets[i].tags # <<>>

(***************************************************************************)
(* C11  Every asset-derived string of the HTML report is embedded escaped: *)
(* each cell, data- attribute and filter option holds no <, >, double or   *)
(* single quote of the data and reads back, entity by entity, as the       *)
(* asset's value; the text of a row or option holds the template's own     *)
(* markup characters and no others.                                        *)
(***************************************************************************)
CountChar(s, c) == Cardinality({j \in 1..Len(s) : s[j] = c})

MarkupChars == {"<", ">", DQ, "'"}

\* piece is a safe embedding of value
Embeds(piece, value) ==
    /\ \A j \in 1..Len(piece) : piece[j] \notin MarkupChars
    /\ HtmlUnescape(piece) = value

RowFields(a) ==
    <<a.name, a.account_id, a.account_alias, a.region, a.instance_id,
      a.instance_type, a.private_ip, a.state, a.source,
      First10(a.created), First10(a.last_updated)>>

\* C11: every embedded cell, attribute and option is an escaped asset value and
\* the row and option texts hold only the markup of their templates
C11_HtmlEscaped ==
    html_file # <<>> =>
        LET doc == html_file[1]
        IN  /\ Len(doc.rows) = Len(assets)
            /\ \A i \in 1..Len(doc.rows) :
                 LET r == doc.rows[i]
                 IN  /\ Len(r.cells) = 11
                     /\ \A c \in 1..11 : Embeds(r.cells[c], RowFields(assets[i])[c])
                     /\ Embeds(r.data_account, assets[i].account_id)
                     /\ Embeds(r.data_alias, assets[i].account_alias)
                     /\ r.html = RowHtml(r.data_account, r.data_alias, r.state_class, r.cells)
                     /\ CountChar(r.html, "<") = 24
                     /\ CountChar(r.html, ">") = 24
                     /\ CountChar(r.html, DQ) = 6
                     /\ CountChar(r.html, "'") = 0
            /\ \A o \in doc.account_options :
                 /\ \E i \in 1..Len(assets) :
                      /\ Embeds(o.value, AccountKey(assets[i]))
                      /\ Embeds(o.label, AccountKey(assets[i]))
                 /\ CountChar(o.html, "<") = 2
                 /\ CountChar(o.html, ">") = 2
                 /\ CountChar(o.html, DQ) = 2
                 /\ CountChar(o.html, "'") = 0
            /\ \A o \in doc.region_options :
                 /\ \E i \in 1..Len(assets) :
                      /\ Embeds(o.value, assets[i].region)
                      /\ Embeds(o.label, assets[i].region)
                 /\ CountChar(o.html, "<") = 2
                 /\ CountChar(o.html, ">") = 2
                 /\ CountChar(o.html, DQ) = 2
                 /\ CountChar(o.html, "'") = 0

\* a report was written for an asset whose name and region hold "<" and a
\* double quote and whose alias holds a double quote
C11_Witness ==
    /\ html_file # <<>>
    /\ \E i \in 1..Len(assets) :
         /\ assets[i].name = <<"<", DQ, ",">>
         /\ assets[i].account_alias = <<DQ>>
         /\ html_file[1].region_options # {}

(***************************************************************************)
(* C12  The five provider-dependent fields of every produced asset are the *)
(* values that one cloud-specific entry of its record holds under the keys *)
(* of the provider table for the requested provider (the empty string for  *)
(* a key the entry lacks), and under no other key.                         *)
(***************************************************************************)
ProviderTable(p) ==
    CASE p = AWS ->
           [account_id |-> "accountId", region |-> "region", instance_id |-> "instanceId",
            instance_type |-> "instanceType", state |-> "instanceState"]
      [] p = AZURE ->
           [account_id |-> "subscriptionId", region |-> "location", instance_id |-> "vmId",
            instance_type |-> "vmSize", state |-> "state"]
      [] p = GCP ->
           [account_id |-> "projectId", region |-> "zone", instance_id |-> "instanceId",
            instance_type |-> "machineType", state |-> "state"]

CloudKeys == {"Ec2AssetSourceSimple", "AzureAssetSourceSimple", "GcpAssetSourceSimple"}

\* the cloud-specific dicts of the source-info entries of the record at j
CloudInfosOf(j) ==
    LET l == SourceList(HostData[j]["HostAsset"][1])
    IN  UNION {{l[n][k] : k \in CloudKeys \cap DOMAIN l[n]} : n \in 1..Len(l)}

ReadByTable(asset, info, p) ==
    /\ asset.account_id = Get(info, ProviderTable(p).account_id, EmptyStr)
    /\ asset.region = Get(info, ProviderTable(p).region, EmptyStr)
    /\ asset.instance_id = Get(info, ProviderTable(p).instance_id, EmptyStr)
    /\ asset.instance_type = Get(info, ProviderTable(p).instance_type, EmptyStr)
    /\ asset.state = Get(info, ProviderTable(p).state, EmptyStr)

\* C12: the five fields of each asset are read from one cloud-specific entry
\* of its record under the keys of the requested provider
C12_FieldTable ==
    \A i \in 1..Len(assets) :
        \E j \in 1..Len(HostData) :
            /\ IsHostRecord(HostData[j])
            /\ \E info \in CloudInfosOf(j) : ReadByTable(assets[i], info, cloud)

\* an Azure asset was produced from an entry that holds the keys of all three
\* providers: it shows the values under the Azure keys
C12_Witness ==
    /\ cloud = AZURE
    /\ Len(assets) = 1
    /\ Len(HostData) = 1
    /\ SourceList(HostData[1]["HostAsset"][1]) = <<FullEntry(AZURE)>>
    /\ assets[1].account_id = <<"S">>
    /\ assets[1].state = Stopped

(***************************************************************************)
(* C13  Mapping a sparse record raises nothing, a key the record lacks     *)
(* gives the field its default, and the filter alone decides whether the   *)
(* record yields an asset.                                                 *)
(***************************************************************************)
\* the response holds one host record and the fetch produced its asset
OneRecordMapped ==
    /\ AssetsFetched
    /\ Len(HostData) = 1
    /\ IsHostRecord(HostData[1])
    /\ Len(assets) = 1

TheHost == HostData[1]["HostAsset"][1]

\* the tag list of a cloud-specific dict is absent at some level
NoTagList(info) ==
    /\ "list" \notin DOMAIN Get(Get(info, "ec2InstanceTags", EmptyDict), "tags", EmptyDict)
    /\ "list" \notin DOMAIN Get(Get(info, "azureVmTags", EmptyDict), "tags", EmptyDict)
    /\ "list" \notin DOMAIN Get(info, "labels", EmptyDict)

\* the fields of the mapper: an absent key leaves "" and absent tags leave {}
MapperDefaults(asset, info) ==
    /\ ReadByTable(asset, info, cloud)
    /\ \A f \in {"region", "instance_id", "instance_type", "state"} :
          ProviderTable(cloud)[f] \notin DOMAIN info => asset[f] = EmptyStr
    /\ "privateIpAddress" \notin DOMAIN info => asset.private_ip = EmptyStr
    /\ "publicIpAddress" \notin DOMAIN info => asset.public_ip = EmptyStr
    /\ NoTagList(info) => asset.tags = <<>>

\* the fields read from the host itself, but for cloud_provider
HostDefaults(asset, host) ==
    /\ "id" \notin DOMAIN host => asset.asset_id = EmptyStr
    /\ "name" \notin DOMAIN host => asset.name = EmptyStr
    /\ "created" \notin DOMAIN host => asset.created = EmptyStr
    /\ "modified" \notin DOMAIN host => asset.last_updated = EmptyStr

\* a record of one entry passes the filter
PassesFilter(host) ==
    /\ ~Truthy(Get(host, "agentInfo", EmptyDict))
    /\ Len(SourceList(host)) = 1
    /\ \E info \in CloudInfosOf(1) :
         /\ Get(info, ProviderTable(cloud).account_id, EmptyStr) # EmptyStr
         /\ ~SameIgnoringCase(Get(info, ProviderTable(cloud).state, EmptyStr), TERMINATED)

\* no record of the response is null, so nothing is there to raise on
SparseButWellFormed ==
    /\ AssetsFetched
    /\ HostResponseOk
    /\ \A j \in 1..Len(HostData) : ~RaisesOn(HostData[j])

MappingIsTotal ==
    /\ SparseButWellFormed => \A n \in 1..Len(stdout) : stdout[n] # "assets_error"
    /\ OneRecordMapped =>
          /\ \E info \in CloudInfosOf(1) : MapperDefaults(assets[1], info)
          /\ HostDefaults(assets[1], TheHost)
    /\ (SparseButWellFormed /\ Len(HostData) = 1 /\ IsHostRecord(HostData[1])
          /\ Len(SourceList(TheHost)) = 1)
          => (Len(assets) = 1 <=> PassesFilter(TheHost))

\* C13 as stated: mapping is total and every absent field, cloud_provider
\* included, is the empty string
C13_AbsentIsEmpty ==
    /\ MappingIsTotal
    /\ OneRecordMapped =>
          ("cloudProvider" \notin DOMAIN TheHost => assets[1].cloud_provider = EmptyStr)

\* C13: mapping is total; an absent cloudProvider leaves the requested
\* provider, every other absent field the empty string and absent tags {}
C13_AbsentIsDefault ==
    /\ MappingIsTotal
    /\ OneRecordMapped =>
          ("cloudProvider" \notin DOMAIN TheHost => assets[1].cloud_provider = cloud)

\* an asset was produced from a record that holds an account id and nothing else
C13_Witness ==
    /\ OneRecordMapped
    /\ DOMAIN TheHost = {"sourceInfo"}
    /\ \E info \in CloudInfosOf(1) : DOMAIN info = {ProviderTable(cloud).account_id}
    /\ assets[1].region = EmptyStr
    /\ assets[1].tags = <<>>
    /\ assets[1].name = EmptyStr

(***************************************************************************)
(* The alias sources as the claims C14 to C16 speak of them.               *)
(***************************************************************************)
\* the alias map when fetch_account_aliases was first called
AliasesBefore ==
    IF account_map.given /\ account_map.readable THEN account_map.content ELSE EmptyDict

\* the response did not arrive, was not a 200, or held no JSON
Failed(resp) == resp.raises \/ resp.status_code # 200 \/ resp.json = <<>>

AwsConsulted == aws_resp # <<>>

\* the alias map when the asset-data-connector listing was first consulted
AliasesBeforeData ==
    IF AwsConsulted THEN AliasesFromAwsList(AliasesBefore, aws_resp[1]) ELSE AliasesBefore

\* the entries of the asset-data-connector listing
DataEntries ==
    IF Failed(v3_resp[1]) THEN <<>>
    ELSE Get(Get(v3_resp[1].json[1], "ServiceResponse", EmptyDict), "data", <<>>)

EntryConn(n) == Get(DataEntries[n], ApiConfig(cloud).connector_key, EmptyDict)

\* the id of entry n: the string at the end of the id path, else ""
EntryId(n) ==
    LET path == ApiConfig(cloud).id_field
        conn == EntryConn(n)
    IN  IF Len(path) = 1
        THEN (IF path[1] \in DOMAIN conn THEN conn[path[1]].value ELSE EmptyStr)
        ELSE IF path[1] \in DOMAIN conn /\ conn[path[1]].type = "dict"
                /\ path[2] \in DOMAIN conn[path[1]].value
             THEN conn[path[1]].value[path[2]].value
             ELSE EmptyStr

\* the alias of entry n: its alias field, else its name, else ""
EntryAlias(n) ==
    LET conn == EntryConn(n)
        f == ApiConfig(cloud).alias_field
    IN  IF f \in DOMAIN conn /\ conn[f] # EmptyStr THEN conn[f]
        ELSE IF "name" \in DOMAIN conn THEN conn["name"]
        ELSE EmptyStr

\* entry n has an id and an alias
Usable(n) == EntryId(n) # EmptyStr /\ EntryAlias(n) # EmptyStr

\* C14: after the first call, every id held before the asset-data-connector
\* listing keeps its alias, and every id the listing added is non-empty and
\* has the non-empty alias of the first usable entry of that id
C14_DataListingOnlyAdds ==
    (AliasesResolved /\ pc = "get_connectors") =>
        /\ \A id \in DOMAIN AliasesBeforeData :
              id \in DOMAIN account_aliases /\ account_aliases[id] = AliasesBeforeData[id]
        /\ \A id \in (DOMAIN account_aliases) \ (DOMAIN AliasesBeforeData) :
              /\ id # EmptyStr
              /\ account_aliases[id] # EmptyStr
              /\ \E n \in 1..Len(DataEntries) :
                    /\ Usable(n) /\ EntryId(n) = id
                    /\ account_aliases[id] = EntryAlias(n)
                    /\ \A m \in 1..(n - 1) : ~(Usable(m) /\ EntryId(m) = id)
        /\ \A n \in 1..Len(DataEntries) : Usable(n) => EntryId(n) \in DOMAIN account_aliases

\* the listing named an id twice with different aliases and an id that the
\* override file had already set
C14_Witness ==
    /\ AliasesResolved
    /\ pc = "get_connectors"
    /\ AliasesBeforeData = (<<"1">> :> <<"P">>)
    /\ Len(DataEntries) = 2
    /\ Usable(1) /\ Usable(2)
    /\ EntryId(1) = <<"1">> /\ EntryId(2) = <<"1">>
    /\ EntryAlias(1) # EntryAlias(2)
    /\ account_aliases = (<<"1">> :> <<"P">>)

\* C15: after the first call, a source that failed has added nothing: the map
\* is the one before the call with the entries of the sources that answered
C15_FailedSourceAddsNothing ==
    (AliasesResolved /\ pc = "get_connectors") =>
        /\ exit_code = <<>>
        /\ (AwsConsulted /\ Failed(aws_resp[1])) =>
              account_aliases = AliasesFromDataConnectors(AliasesBefore, cloud, v3_resp[1]).aliases
        /\ (AwsConsulted /\ Failed(aws_resp[1]) /\ Failed(v3_resp[1])) =>
              account_aliases = AliasesBefore
        /\ (~AwsConsulted /\ Failed(v3_resp[1])) => account_aliases = AliasesBefore
        /\ Failed(v3_resp[1]) =>
              /\ DOMAIN AliasesBefore \subseteq DOMAIN account_aliases
              /\ \A id \in (DOMAIN account_aliases) \ (DOMAIN AliasesBefore) :
                    /\ AwsConsulted /\ ~Failed(aws_resp[1])
                    /\ \E n \in 1..Len(Get(aws_resp[1].json[1], "content", <<>>)) :
                          Get(Get(aws_resp[1].json[1], "content", <<>>)[n],
                              "awsAccountId", EmptyStr) = id

\* the Connector v1.0 listing failed with a status, the override file had set
\* an alias, and the asset-data-connector listing added another
C15_Witness ==
    /\ AliasesResolved
    /\ pc = "get_connectors"
    /\ AwsConsulted
    /\ ~aws_resp[1].raises /\ aws_resp[1].status_code = 500
    /\ ~Failed(v3_resp[1])
    /\ AliasesBefore = (<<"1">> :> <<"P">>)
    /\ DOMAIN account_aliases = {<<"1">>, <<"2">>}

\* C16: a second call of fetch_account_aliases on the same client, with the
\* same cloud type and the same responses, leaves the alias map as it was
C16_Idempotent ==
    [][pc' = "fetched_again" => account_aliases' = account_aliases]_vars

\* the second call has returned, both listings answered and the map holds the
\* override file's id and one more
C16_Witness ==
    /\ pc = "fetched_again"
    /\ AwsConsulted
    /\ ~Failed(aws_resp[1]) /\ ~Failed(v3_resp[1])
    /\ account_map.given
    /\ <<"1">> \in DOMAIN account_aliases
    /\ <<"2">> \in DOMAIN account_aliases
    /\ Len(DataEntries) = 2

(***************************************************************************)
(* C17  The asset of a record is built from the first source-info entry of *)
(* the requested provider, whatever entries of other providers stand       *)
(* before it.                                                              *)
(* The loop stops at the first entry of any provider: when that entry is   *)
(* of another provider the record yields no asset.  The code fails.        *)
(***************************************************************************)
\* the positions of the entries of the requested provider in the record
MatchingEntries ==
    {n \in 1..Len(SourceList(TheHost)) : CloudKey(cloud) \in DOMAIN SourceList(TheHost)[n]}

FirstMatching == CHOOSE n \in MatchingEntries : \A m \in MatchingEntries : n <= m

FirstMatchingInfo == SourceList(TheHost)[FirstMatching][CloudKey(cloud)]

\* C17: a record without agent whose first entry of the requested provider
\* holds an account id and is not terminated yields one asset, with the
\* fields, addresses and tags of that entry
C17_FirstMatchingEntryWins ==
    (SparseButWellFormed /\ Len(HostData) = 1 /\ IsHostRecord(HostData[1])
       /\ ~Truthy(Get(TheHost, "agentInfo", EmptyDict)) /\ MatchingEntries # {}
       /\ Get(FirstMatchingInfo, ProviderTable(cloud).account_id, EmptyStr) # EmptyStr
       /\ ~SameIgnoringCase(Get(FirstMatchingInfo, ProviderTable(cloud).state, EmptyStr),
                            TERMINATED))
    => /\ Len(assets) = 1
       /\ ReadByTable(assets[1], FirstMatchingInfo, cloud)
       /\ assets[1].private_ip = Get(FirstMatchingInfo, "privateIpAddress", EmptyStr)
       /\ assets[1].public_ip = Get(FirstMatchingInfo, "publicIpAddress", EmptyStr)
       /\ assets[1].tags = CloudTags(CloudKey(cloud), FirstMatchingInfo)

(***************************************************************************)
(* C18  The source of an asset names the known categories of the record's  *)
(* source-info entries, each once, in the order first seen, as "icon name" *)
(* joined by ", "; a record with no such entry is labelled by its tracking *)
(* method, looked up in the table or else verbatim.                        *)
(***************************************************************************)
\* the category of an entry: <<>> or <<name, icon>>
CategoryOf(entry) ==
    IF "Ec2AssetSourceSimple" \in DOMAIN entry THEN <<EC2_CONNECTOR, "[plug]">>
    ELSE IF "AzureAssetSourceSimple" \in DOMAIN entry THEN <<AZURE_CONNECTOR, "[plug]">>
    ELSE IF "GcpAssetSourceSimple" \in DOMAIN entry THEN <<GCP_CONNECTOR, "[plug]">>
    ELSE IF "AgentAssetSource" \in DOMAIN entry THEN <<CLOUD_AGENT, "[robot]">>
    ELSE IF "QualysAssetSource" \in DOMAIN entry THEN <<SCANNER, "[magnifier]">>
    ELSE <<>>

\* the positions whose category is known and not that of an earlier position
FirstSeen(list) ==
    {n \in 1..Len(list) :
        /\ CategoryOf(list[n]) # <<>>
        /\ \A m \in 1..(n - 1) :
              CategoryOf(list[m]) = <<>> \/ CategoryOf(list[m])[1] # CategoryOf(list[n])[1]}

RECURSIVE LabelAt(_, _)
LabelAt(list, positions) ==
    IF positions = <<>> THEN EmptyStr
    ELSE LET c == CategoryOf(list[Head(positions)])
             one == <<c[2], " ">> \o c[1]
         IN  IF Len(positions) = 1 THEN one
             ELSE one \o <<",", " ">> \o LabelAt(list, Tail(positions))

TrackingTable(method) ==
    CASE method = <<"Q","A","G","E","N","T">> -> CLOUD_AGENT
      [] method = <<"I","N","S","T","A","N","C","E","_","I","D">> -> EC2_CONNECTOR
      [] method = <<"V","M","_","I","D">> -> AZURE_CONNECTOR
      [] method \in {<<"I","P">>, <<"D","N","S">>, <<"N","E","T","B","I","O","S">>} -> SCANNER
      [] method = <<"E","C","2">> -> EC2_CONNECTOR
      [] method = <<"G","C","P">> -> GCP_CONNECTOR
      [] method = <<"A","Z","U","R","E">> -> AZURE_CONNECTOR
      [] OTHER -> method

ExpectedSource(host) ==
    IF FirstSeen(SourceList(host)) # {}
    THEN LabelAt(SourceList(host), Ascending(FirstSeen(SourceList(host))))
    ELSE TrackingTable(IF "trackingMethod" \in DOMAIN host THEN host["trackingMethod"]
                       ELSE EmptyStr)

\* C18: the label computed for every record of the response, and the source
\* of the asset produced from it, is the expected one
C18_SourceLabel ==
    /\ \A j \in 1..Len(HostData) :
          IsHostRecord(HostData[j]) =>
             LET host == HostData[j]["HostAsset"][1]
             IN  SourceLabel(host, SourceList(host)) = ExpectedSource(host)
    /\ OneRecordMapped => assets[1].source = ExpectedSource(TheHost)

\* an asset of a record seen by the scanner, the EC2 connector, the agent and
\* the scanner again
C18_Witness ==
    /\ OneRecordMapped
    /\ Len(SourceList(TheHost)) = 4
    /\ assets[1].source = <<"[magnifier]", " ">> \o SCANNER \o <<",", " ">>
                           \o <<"[plug]", " ">> \o EC2_CONNECTOR \o <<",", " ">>
                           \o <<"[robot]", " ">> \o CLOUD_AGENT

(***************************************************************************)
(* C19  The file that "Export Filtered CSV" builds has as many column      *)
(* names in its header line as it has values in each of its rows.          *)
(* The header names ten columns and leaves out Last Updated, a row holds   *)
(* the eleven cells of the table.  The code fails.                         *)
(***************************************************************************)
\* the number of names of an unquoted header line
HeaderColumns(line) == CountChar(line, ",") + 1

\* C19: every exported row reads as quoted fields, as many as the header names
C19_ExportColumnsMatch ==
    browser.exported # <<>> =>
        LET csv == browser.exported[1]
        IN  \A i \in 2..Len(csv) :
               LET r == ReadCsvRow(csv[i], 1, <<>>)
               IN  r.ok /\ Len(r.fields) = HeaderColumns(csv[1])

====
